-------------------------- MODULE MCZstDepContext --------------------------
EXTENDS ZstDepContext

OnePipeline == [e \in Rx \cup Tx |-> "pipeline"]
TwoPipelines == [e \in Rx \cup Tx |-> e]
=============================================================================
