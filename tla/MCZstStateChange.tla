------------------------ MODULE MCZstStateChange ------------------------
EXTENDS ZstStateChange

CONSTANTS src, mid, sink, c1, c2, box, b1, b2

MCElements == <<src, mid, sink>>
MCChildren == (mid :> <<c1, c2>>) @@ (box :> <<b1, b2>>)
=========================================================================
