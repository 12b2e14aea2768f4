----------------------------- MODULE WriteBehind ----------------------------
(***************************************************************************)
(* What the asynchronous client promises when nothing fails: writes are    *)
(* stored later, but in the order in which they were accepted; a flush     *)
(* returns only when everything accepted before it was called is stored;   *)
(* the client is closed only when everything is stored.                    *)
(***************************************************************************)
EXTENDS Integers, Sequences

CONSTANTS
  Clients,  \* the threads that write and flush
  Writes    \* the writes they may issue

VARIABLES
  accepted,  \* the writes accepted so far, in order
  stored,    \* the writes the server stored so far, in order
  promise,   \* promise[c]: what the flush of c waits for, -1 when it has none
  closed     \* the client has been closed

vars == <<accepted, stored, promise, closed>>

Init ==
  /\ accepted = <<>>
  /\ stored = <<>>
  /\ promise = [c \in Clients |-> -1]
  /\ closed = FALSE

\* A write is accepted.  Writes may be infinite, so the write is read off the
\* new value of accepted.
Accept ==
  /\ ~ closed
  /\ accepted' # <<>>
  /\ LET w == accepted'[Len(accepted')]
     IN  w \in Writes /\ accepted' = Append(accepted, w)
  /\ UNCHANGED <<stored, promise, closed>>

\* One or several writes reach the server, the oldest first.
Store ==
  /\ \E n \in Len(stored) .. Len(accepted) : stored' = SubSeq(accepted, 1, n)
  /\ UNCHANGED <<accepted, promise, closed>>

BeginFlush(c) ==
  /\ ~ closed
  /\ promise[c] = -1
  /\ promise' = [promise EXCEPT ![c] = Len(accepted)]
  /\ UNCHANGED <<accepted, stored, closed>>

EndFlush(c) ==
  /\ promise[c] # -1
  /\ promise[c] <= Len(stored)
  /\ promise' = [promise EXCEPT ![c] = -1]
  /\ UNCHANGED <<accepted, stored, closed>>

Close ==
  /\ ~ closed
  /\ stored = accepted
  /\ closed' = TRUE
  /\ UNCHANGED <<accepted, stored, promise>>

Next ==
  \/ Accept
  \/ Store
  \/ \E c \in Clients : BeginFlush(c) \/ EndFlush(c)
  \/ Close

Spec == Init /\ [][Next]_vars
=============================================================================
