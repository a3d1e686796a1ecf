--------------------------- MODULE MCBufferFraming ---------------------------
(* All eight kinds of messages about one weak and one strong block, and    *)
(* two requests for one block that differ in size.                         *)
EXTENDS BufferFraming

MCMessage ==
    {AskBlock("c", "h", 1), AskBlock("c", "h", 2), SendBlock("c", "p", "h"),
     SendWeak("c", "p", "w"), GotFullBlock("c", "w"), HaveFullBlock("c", "w"),
     AskFullBlock("c", "w"), FullBlock("c", "w", "txs"), Ping("name", 1)}
=============================================================================
