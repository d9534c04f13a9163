SPECIFICATION Spec
CONSTANTS
    MaxInside = 2
    Elements = {"aacenc", "opusenc", "x264enc", "x265enc", "h265enc",
                "h264dec", "h265dec", "aacdec", "opusdec", "vp8enc", "vp8dec",
                "vp9enc", "vp9dec", "nvenc", "nvdec", "nvscale", "vaapienc",
                "vaapidec", "oneapienc", "oneapidec", "alsasink", "alsasrc",
                "v4l2sink", "v4l2src", "x11sink", "filesink", "filesrc",
                "fakesink", "textsrc", "glsink", "hlssink", "audiotestsrc",
                "videotestsrc", "sc6f0src", "netsrc", "netsink", "srtsrc",
                "srtsink", "httpsrc", "rtmpsrc", "rtmpsink", "videoscaler",
                "audioresampler", "textoverlay", "h26xparse", "aacparse",
                "srtparse", "mp4mux", "tsmux", "mp4demux", "tsdemux", "rtppay",
                "rtpdepay", "st2110_20pay", "st2110_20depay", "st2110_21pay",
                "st2110_21depay", "st2110_22pay", "st2110_22depay",
                "st2110_30pay", "st2110_30depay", "st2110_40pay",
                "st2110_40depay", "st2110_fecenc", "st2110_fecdec",
                "st2110_redmux", "st2110_reddemux", "sdpmux", "sdpdemux",
                "danteudpsrc", "danteudpsink", "dantedepsrc", "dantedepsink",
                "queue", "audiomixer", "rtspsink", "ippcompsink", "glcompsink"}
INVARIANT Released
INVARIANT NeverStray
INVARIANT EosLast
INVARIANT Drained
INVARIANT SettingsKept
