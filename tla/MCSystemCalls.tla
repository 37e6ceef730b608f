--------------------------- MODULE MCSystemCalls ---------------------------
EXTENDS SystemCalls, TLC

CONSTANTS A, B

CapEntry == [kind |-> "CapEntry"]
Thread(t) == [kind |-> "Thread", thread |-> t]

\* Two threads that activate one another, and themselves.
MCCaps ==
  (A :> ((0 :> CapEntry) @@ (1 :> Thread(B)) @@ (2 :> Thread(A)) @@ (3 :> [kind |-> "PageTable"])
           @@ (4 :> [kind |-> "Empty"])))
    @@ (B :> ((0 :> Thread(A)) @@ (1 :> CapEntry) @@ (2 :> Thread(B))))

MCOperations == {Activate, Link(0, 1), Link(4, 0), Link(9, 0), Unlink(COUNT - 1)}

\* The booter's call, librs's write, and arguments at their bounds.
MCRawCalls ==
  {<<1, 2, 3, 4, 5, 6>>, <<2 * ISIZE_LIMIT - 1, 0, 5, 3, 0, 0>>,
   <<0, CapTableUnlink, COUNT, 0, 0, 0>>, <<0, CapTableLink, U32_LIMIT, 0, 0, 0>>, <<0, 4, 0, 0, 0, 0>>}
=============================================================================
