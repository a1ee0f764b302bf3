--------------------------- MODULE MCPackTransaction ---------------------------
(* A client with requests of every kind and every fault; clients share     *)
(* nothing, so that one stands for all.                                    *)
EXTENDS PackTransaction

MkPack(kind, complete, coin, from, to, buffers, valid) ==
    [kind |-> kind, complete |-> complete, coin |-> coin, from |-> from, to |-> to,
     buffers |-> buffers, valid |-> valid]

MCRequests ==
    {MkPack("transfer", TRUE, "string", "gdd1", t, 2, PackedParts) :
        t \in {"gdd1", "gdd2", "GDD!", ""}}
    \cup {MkPack("transfer", TRUE, "missing", "gdd1", "gdd2", 2, {"outbound"}),
          MkPack("transfer", TRUE, "other", "", "", 2, PackedParts),
          MkPack("transfer", FALSE, "missing", "", "", 2, PackedParts),
          MkPack("creation", TRUE, "missing", "", "", 1, PackedParts),
          MkPack("registerAddress", TRUE, "missing", "gdd2", "gdd1", 3, {"inbound"}),
          MkPack("registerAddress", TRUE, "missing", "gdd2", "gdd1", 3, PackedParts),
          MkPack("registerAddress", TRUE, "missing", "", "", 1, PackedParts),
          MkPack("other", TRUE, "missing", "", "", 1, PackedParts)}
=============================================================================
