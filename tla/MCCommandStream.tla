-------------------------- MODULE MCCommandStream --------------------------
(* Instances of CommandStream for TLC: headers of 2 bytes, lengths of 2.   *)
EXTENDS CommandStream, SequencesExt

Fixed(n) == [kind |-> "fixed", bytes |-> n, length |-> n]
Dyn(k, n) == [kind |-> k, bytes |-> n, length |-> n]

\* One operation of each shape; the server does not have the last two.  Offset is computed from Packs.
AllPacks ==
  [ set     |-> <<Fixed(1), Dyn("vector", 2)>>,
    name    |-> <<Dyn("string", 1), Fixed(1)>>,
    blob    |-> <<Dyn("bytes", 1)>>,
    void    |-> <<>>,
    unknown |-> <<Fixed(2)>> ]
MCPacks == [o \in Ops |-> AllPacks[o]]

AllReply ==
  [ set |-> 0, name |-> 3, blob |-> 0, void |-> 0, unknown |-> 0 ]

MCReply == [o \in Ops |-> AllReply[o]]

MCOffset ==
  [o \in Ops |->
     [j \in 1 .. Len(MCPacks[o]) + 1 |->
        FoldLeft(LAMBDA sum, p : sum + PackBytes(p), HeaderBytes,
                 SubSeq(MCPacks[o], 1, j - 1))]]

ServerOps == {"set", "name", "blob"}
AllOps == ServerOps \cup {"void", "unknown"}
=============================================================================
