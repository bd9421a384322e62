------------------------------ MODULE Connections ------------------------------
(***************************************************************************)
(* The sockets of annInferenceServer: the accept loop of server.cpp, and   *)
(* who closes a connection's descriptor when.  The helpers of netutil.cpp  *)
(* close the descriptor when an exchange fails, error_close() exchanges a  *)
(* last INFCOM_CMD_DONE and closes whatever happened, and connection()     *)
(* closes it after a session that returned 0.  A descriptor is a number,   *)
(* and accept hands out the lowest free one: a second close of the same    *)
(* number closes the connection that has it by then.                       *)
(***************************************************************************)
EXTENDS Clients, Naturals

CONSTANT Descriptor   \* the numbers of descriptors the process may use for clients

ASSUME DescriptorAssumption == Descriptor \subseteq Nat

VARIABLES conn,     \* per session: how far its connection is
          fd,       \* the number accept returned for it, while a function has it as sock
          owner,    \* whose socket a number stands for, None when it is free
          lostDone  \* history: a client was lost inside error_close

connVars == <<conn, fd, owner, lostDone>>

\* The states of a connection whose session may still use its descriptor.
InUse == {"open", "errSend", "errRecv", "errClose"}

ConnTypeOK ==
  /\ conn \in [Session -> InUse \union {"new", "shut"}]
  /\ fd \in [Session -> Descriptor \union {None}]
  /\ owner \in [Descriptor -> Session \union {None}]
  /\ lostDone \in BOOLEAN

ConnInit ==
  /\ conn = [s \in Session |-> "new"]
  /\ fd = [s \in Session |-> None]
  /\ owner = [d \in Descriptor |-> None]
  /\ lostDone = FALSE

\* close(sock)
Close(s) == owner' = [owner EXCEPT ![fd[s]] = None]

\* accept in the loop of server().
Accept(s) ==
  /\ conn[s] = "new"
  /\ \E d \in Descriptor :
       /\ owner[d] = None
       /\ \A e \in Descriptor : owner[e] = None => d <= e
       /\ fd' = [fd EXCEPT ![s] = d]
       /\ owner' = [owner EXCEPT ![d] = s]
  /\ conn' = [conn EXCEPT ![s] = "open"]
  /\ UNCHANGED lostDone

\* sendCommand and recvCommand (or recvBuffer) with nothing wrong: somebody is
\* at the other end of the number.
ExchangeOk(s) ==
  /\ conn[s] = "open"
  /\ owner[fd[s]] # None
  /\ UNCHANGED connVars

\* Mutant: the session does not return when an exchange has failed.
ExchangeFailsIgnored(s) ==
  /\ conn[s] = "open"
  /\ Close(s)
  /\ UNCHANGED <<conn, fd, lostDone>>

\* The client is gone, or sent something else than expected: the helper closes
\* the descriptor and the session returns -1 (ERRCHK).
ExchangeFails(s) ==
  /\ conn[s] = "open"
  /\ Close(s)
  /\ conn' = [conn EXCEPT ![s] = "shut"]
  /\ fd' = [fd EXCEPT ![s] = None]
  /\ UNCHANGED lostDone

\* A session calls error_close.
ErrorClose(s) ==
  /\ conn[s] = "open"
  /\ conn' = [conn EXCEPT ![s] = "errSend"]
  /\ UNCHANGED <<fd, owner, lostDone>>

\* error_close: sendCommand, whose result is not looked at.
ErrorSend(s) ==
  /\ conn[s] = "errSend"
  /\ conn' = [conn EXCEPT ![s] = "errRecv"]
  /\ \/ owner[fd[s]] # None /\ UNCHANGED <<owner, lostDone>>
     \/ Close(s) /\ lostDone' = TRUE
  /\ UNCHANGED fd

\* error_close: recvCommand, whose result is not looked at either.
ErrorRecv(s) ==
  /\ conn[s] = "errRecv"
  /\ conn' = [conn EXCEPT ![s] = "errClose"]
  /\ \/ owner[fd[s]] # None /\ UNCHANGED <<owner, lostDone>>
     \/ Close(s) /\ lostDone' = TRUE
  /\ UNCHANGED fd

\* error_close: the close at its end.
ErrorEnd(s) ==
  /\ conn[s] = "errClose"
  /\ Close(s)
  /\ conn' = [conn EXCEPT ![s] = "shut"]
  /\ fd' = [fd EXCEPT ![s] = None]
  /\ UNCHANGED lostDone

\* connection() after a session that returned 0, and the end of run() when the
\* model was not found.
CloseSocket(s) ==
  /\ conn[s] = "open"
  /\ Close(s)
  /\ conn' = [conn EXCEPT ![s] = "shut"]
  /\ fd' = [fd EXCEPT ![s] = None]
  /\ UNCHANGED lostDone

\* The process ends and the system closes its descriptors.
ConnReset ==
  /\ conn' = [s \in Session |-> IF conn[s] = "new" THEN "new" ELSE "shut"]
  /\ owner' = [d \in Descriptor |-> None]
  /\ fd' = [s \in Session |-> None]
  /\ UNCHANGED lostDone

ConnNext ==
  \/ \E s \in Session :
       \/ Accept(s) \/ ExchangeOk(s) \/ ExchangeFails(s) \/ CloseSocket(s)
       \/ ErrorClose(s) \/ ErrorSend(s) \/ ErrorRecv(s) \/ ErrorEnd(s)
  \/ ConnReset

ConnSpec == ConnInit /\ [][ConnNext]_connVars
--------------------------------------------------------------------------------
\* As long as no client was lost in the middle of error_close, every session
\* that still uses its descriptor has its own client at the other end: no other
\* session has closed it, no other connection has got the number.
OwnDescriptor ==
  ~lostDone => \A s \in Session : conn[s] \in InUse => owner[fd[s]] = s
================================================================================
