--------------------------- MODULE NodePoolProofs ---------------------------
(***************************************************************************)
(* Proofs about NodePool, for any number of calls and sockets, any set of  *)
(* ports and any pool size.                                                *)
(*                                                                         *)
(* The invariants are not inductive as they stand: that a call's socket is *)
(* nobody else's needs that a new socket is one nothing refers to, that a  *)
(* request travels authenticated needs that what lies in the pool is, and  *)
(* that needs that no other call closes a socket under its user.  IInv     *)
(* adds which sockets a call has at each await, that one connect runs at a *)
(* time, and that a lost socket is nobody's.                               *)
(***************************************************************************)
EXTENDS NodePool, FiniteSetTheorems, TLAPS

Active(c) == kind[c] = "connect" /\ pc[c] # "idle"

(* The sockets of a call at each await.                                    *)
CallSockets ==
  \A c \in Call :
    /\ pc[c] \in {"probe", "auth", "auth2", "sent"} => conn[c] \in open
    /\ pc[c] = "dial" => conn[c] \in Sock \ open
    /\ pc[c] \in {"idle", "discard", "gather", "resumed"} => conn[c] = NoSock
    /\ pc[c] \in {"ldial", "lauth"} =>
         conn[c] \in IF InConnectLogin(c) THEN {NoSock} ELSE open
    /\ pc[c] = "ldial" => lconn[c] \in Sock \ open
    /\ pc[c] = "lauth" => lconn[c] \in open
    /\ pc[c] \notin {"ldial", "lauth"} => lconn[c] = NoSock

(* Only a connect goes on after its request, one at a time, and it knows   *)
(* where it came from.                                                     *)
OneConnect ==
  /\ \A c, d \in Call : Active(c) /\ Active(d) => c = d
  /\ \A c \in Call : pc[c] \in {"gather", "resumed"} => kind[c] = "connect"
  /\ \A c \in Call : Active(c) => home \in Port
  /\ \A c \in Call : Active(c) /\ stage = "login"
                     => pc[c] \in {"ldial", "lauth", "resumed"}
  /\ \A c \in Call : pc[c] = "gather" => stage = "address"

LostIsNobodys ==
  /\ lost \subseteq open
  /\ lost \cap pool = {}
  /\ \A c \in Call : conn[c] \notin lost /\ lconn[c] \notin lost

(* What a call can pick up without authenticating it is authenticated.     *)
PooledAuthenticated ==
  secure => /\ pool \cap up \subseteq authed
            /\ \A c \in Call : pc[c] \in {"probe", "sent"} /\ conn[c] \in up
                               => conn[c] \in authed

IInv == /\ TypeOK
        /\ ExclusiveSockets
        /\ CallSockets
        /\ OneConnect
        /\ LostIsNobodys
        /\ PooledAuthenticated
        /\ SocketsAccountedFor
-----------------------------------------------------------------------------
(* Every action keeps IInv: one lemma each, one step per conjunct.         *)

(* Before its first connection a Node has no socket.                       *)
LEMMA InitIInv == Init => IInv
<1> SUFFICES ASSUME Init PROVE IInv
  OBVIOUS
<1> USE ConstantsAssumption DEF Init
<1>1. TypeOK
  BY DEF TypeOK, PC, Stage
<1>2. ExclusiveSockets /\ CallSockets
  BY DEF ExclusiveSockets, Uses, CallSockets
<1>3. OneConnect /\ LostIsNobodys
  BY DEF OneConnect, Active, LostIsNobodys
<1>4. PooledAuthenticated /\ SocketsAccountedFor
  BY DEF PooledAuthenticated, SocketsAccountedFor
<1>5. QED BY <1>1, <1>2, <1>3, <1>4 DEF IInv

(* A request starts: it pops a socket or dials.                            *)
LEMMA StartRequestKeepsIInv ==
  ASSUME IInv, NEW c \in Call,
         NEW k \in {"info", "admin"}, StartRequest(c, k)
  PROVE  IInv'
<1> USE ConstantsAssumption DEF IInv, StartRequest, At, GetConnection,
        Remainder, PoolAt, connectVars, serverVars
<1>1. TypeOK'
  BY DEF TypeOK, PC, Stage, Held, Fresh
<1>2. ExclusiveSockets'
  BY DEF TypeOK, ExclusiveSockets, Uses, CallSockets, Held, Fresh
<1>3. CallSockets'
  BY DEF TypeOK, CallSockets, InConnectLogin, Held, Fresh
<1>4. OneConnect'
  BY DEF TypeOK, OneConnect, Active
<1>5. LostIsNobodys'
  BY DEF TypeOK, LostIsNobodys, CallSockets, Held, Fresh
<1>6. PooledAuthenticated'
  BY DEF TypeOK, PooledAuthenticated, CallSockets
<1>7. SocketsAccountedFor'
  BY DEF TypeOK, SocketsAccountedFor, Held, CallSockets, Fresh
<1>8. QED BY <1>1, <1>2, <1>3, <1>4, <1>5, <1>6, <1>7

(* ProbeAnswered keeps the inductive invariant.                            *)
LEMMA ProbeAnsweredKeepsIInv ==
  ASSUME IInv, NEW c \in Call, ProbeAnswered(c)
  PROVE  IInv'
<1> USE ConstantsAssumption DEF IInv, ProbeAnswered, At, connectVars,
        nodeVars, serverVars
<1>1. TypeOK'
  BY DEF TypeOK, PC, Stage
<1>2. ExclusiveSockets'
  BY DEF TypeOK, ExclusiveSockets, Uses, CallSockets
<1>3. CallSockets'
  BY DEF TypeOK, CallSockets, InConnectLogin
<1>4. OneConnect'
  BY DEF TypeOK, OneConnect, Active
<1>5. LostIsNobodys'
  BY DEF TypeOK, LostIsNobodys, CallSockets
<1>6. PooledAuthenticated'
  BY DEF TypeOK, PooledAuthenticated, CallSockets
<1>7. SocketsAccountedFor'
  BY DEF TypeOK, SocketsAccountedFor, Held, CallSockets
<1>8. QED BY <1>1, <1>2, <1>3, <1>4, <1>5, <1>6, <1>7

(* ProbeFailed keeps the inductive invariant.                              *)
LEMMA ProbeFailedKeepsIInv ==
  ASSUME IInv, NEW c \in Call, ProbeFailed(c)
  PROVE  IInv'
<1> USE ConstantsAssumption DEF IInv, ProbeFailed, At, CloseSocket,
        connectVars, nodeVars
<1>1. TypeOK'
  BY DEF TypeOK, PC, Stage
<1>2. ExclusiveSockets'
  BY DEF TypeOK, ExclusiveSockets, Uses, CallSockets
<1>3. CallSockets'
  BY DEF TypeOK, CallSockets, InConnectLogin, ExclusiveSockets, Uses,
         OneConnect, Active, LostIsNobodys, Held
<1>4. OneConnect'
  BY DEF TypeOK, OneConnect, Active
<1>5. LostIsNobodys'
  BY DEF TypeOK, LostIsNobodys, CallSockets
<1>6. PooledAuthenticated'
  BY DEF TypeOK, PooledAuthenticated, CallSockets
<1>7. SocketsAccountedFor'
  BY DEF TypeOK, SocketsAccountedFor, Held, CallSockets
<1>8. QED BY <1>1, <1>2, <1>3, <1>4, <1>5, <1>6, <1>7

(* Discarded keeps the inductive invariant.                                *)
LEMMA DiscardedKeepsIInv ==
  ASSUME IInv, NEW c \in Call, Discarded(c)
  PROVE  IInv'
<1> USE ConstantsAssumption DEF IInv, Discarded, At, GetConnection, Remainder,
        PoolAt, connectVars, serverVars
<1>1. TypeOK'
  BY DEF TypeOK, PC, Stage, Held, Fresh
<1>2. ExclusiveSockets'
  BY DEF TypeOK, ExclusiveSockets, Uses, CallSockets, Held, Fresh
<1>3. CallSockets'
  BY DEF TypeOK, CallSockets, InConnectLogin, Held, Fresh
<1>4. OneConnect'
  BY DEF TypeOK, OneConnect, Active
<1>5. LostIsNobodys'
  BY DEF TypeOK, LostIsNobodys, CallSockets, Held, Fresh
<1>6. PooledAuthenticated'
  BY DEF TypeOK, PooledAuthenticated, CallSockets
<1>7. SocketsAccountedFor'
  BY DEF TypeOK, SocketsAccountedFor, Held, CallSockets, Fresh
<1>8. QED BY <1>1, <1>2, <1>3, <1>4, <1>5, <1>6, <1>7

(* Dialled keeps the inductive invariant.                                  *)
LEMMA DialledKeepsIInv ==
  ASSUME IInv, NEW c \in Call, Dialled(c)
  PROVE  IInv'
<1> USE ConstantsAssumption DEF IInv, Dialled, At, connectVars, nodeVars
<1>1. TypeOK'
  BY DEF TypeOK, PC, Stage, CallSockets, InConnectLogin, ExclusiveSockets,
         Uses, OneConnect, Active, LostIsNobodys, Held
<1>2. ExclusiveSockets'
  BY DEF TypeOK, ExclusiveSockets, Uses, CallSockets
<1>3. CallSockets'
  BY DEF TypeOK, CallSockets, InConnectLogin, ExclusiveSockets, Uses,
         OneConnect, Active, LostIsNobodys, Held
<1>4. OneConnect'
  BY DEF TypeOK, OneConnect, Active
<1>5. LostIsNobodys'
  BY DEF TypeOK, LostIsNobodys, CallSockets
<1>6. PooledAuthenticated'
  BY DEF TypeOK, PooledAuthenticated, CallSockets, InConnectLogin,
         ExclusiveSockets, Uses, OneConnect, Active, LostIsNobodys, Held
<1>7. SocketsAccountedFor'
  BY DEF TypeOK, SocketsAccountedFor, Held, CallSockets
<1>8. QED BY <1>1, <1>2, <1>3, <1>4, <1>5, <1>6, <1>7

(* DialFailed keeps the inductive invariant.                               *)
LEMMA DialFailedKeepsIInv ==
  ASSUME IInv, NEW c \in Call, DialFailed(c)
  PROVE  IInv'
<1> USE ConstantsAssumption DEF IInv, DialFailed, At, EndRequest, connectVars,
        serverVars
<1>1. TypeOK'
  BY DEF TypeOK, PC, Stage, InConnectLogin
<1>2. ExclusiveSockets'
  BY DEF TypeOK, ExclusiveSockets, Uses, CallSockets, InConnectLogin
<1>3. CallSockets'
  BY DEF TypeOK, CallSockets, InConnectLogin
<1>4. OneConnect'
  BY DEF TypeOK, OneConnect, Active, InConnectLogin
<1>5. LostIsNobodys'
  BY DEF TypeOK, LostIsNobodys, CallSockets, InConnectLogin
<1>6. PooledAuthenticated'
  BY DEF TypeOK, PooledAuthenticated, CallSockets, InConnectLogin
<1>7. SocketsAccountedFor'
  BY DEF TypeOK, SocketsAccountedFor, Held, CallSockets, InConnectLogin
<1>8. QED BY <1>1, <1>2, <1>3, <1>4, <1>5, <1>6, <1>7

(* Authenticated keeps the inductive invariant.                            *)
LEMMA AuthenticatedKeepsIInv ==
  ASSUME IInv, NEW c \in Call, Authenticated(c)
  PROVE  IInv'
<1> USE ConstantsAssumption DEF IInv, Authenticated, At, AuthAnswer,
        connectVars, nodeVars
<1>1. TypeOK'
  BY DEF TypeOK, PC, Stage
<1>2. ExclusiveSockets'
  BY DEF TypeOK, ExclusiveSockets, Uses, CallSockets
<1>3. CallSockets'
  BY DEF TypeOK, CallSockets, InConnectLogin
<1>4. OneConnect'
  BY DEF TypeOK, OneConnect, Active
<1>5. LostIsNobodys'
  BY DEF TypeOK, LostIsNobodys, CallSockets
<1>6. PooledAuthenticated'
  BY DEF TypeOK, PooledAuthenticated, CallSockets
<1>7. SocketsAccountedFor'
  BY DEF TypeOK, SocketsAccountedFor, Held, CallSockets
<1>8. QED BY <1>1, <1>2, <1>3, <1>4, <1>5, <1>6, <1>7

(* A refused authentication opens a second socket to log in.               *)
LEMMA LoginAgainKeepsIInv ==
  ASSUME IInv, NEW c \in Call, LoginAgain(c)
  PROVE  IInv'
<1> USE ConstantsAssumption DEF IInv, LoginAgain, At, AuthAnswer, connectVars,
        serverVars
<1>1. TypeOK'
  BY DEF TypeOK, PC, Stage, Held, Fresh
<1>2. ExclusiveSockets'
  BY DEF TypeOK, ExclusiveSockets, Uses, CallSockets, Held, Fresh
<1>3. CallSockets'
  BY DEF TypeOK, CallSockets, InConnectLogin, ExclusiveSockets, Uses,
         OneConnect, Active, LostIsNobodys, Held, Fresh
<1>4. OneConnect'
  BY DEF TypeOK, OneConnect, Active
<1>5. LostIsNobodys'
  BY DEF TypeOK, LostIsNobodys, CallSockets, Held, Fresh
<1>6. PooledAuthenticated'
  BY DEF TypeOK, PooledAuthenticated, CallSockets
<1>7. SocketsAccountedFor'
  BY DEF TypeOK, SocketsAccountedFor, Held, CallSockets, Fresh
<1>8. QED BY <1>1, <1>2, <1>3, <1>4, <1>5, <1>6, <1>7

(* AuthRefused keeps the inductive invariant.                              *)
LEMMA AuthRefusedKeepsIInv ==
  ASSUME IInv, NEW c \in Call, AuthRefused(c)
  PROVE  IInv'
<1> USE ConstantsAssumption DEF IInv, AuthRefused, At, AuthAnswer,
        CloseSocket, EndRequest, connectVars
<1>1. TypeOK'
  BY DEF TypeOK, PC, Stage, InConnectLogin
<1>2. ExclusiveSockets'
  BY DEF TypeOK, ExclusiveSockets, Uses, CallSockets, InConnectLogin
<1>3. CallSockets'
  BY DEF TypeOK, CallSockets, InConnectLogin, ExclusiveSockets, Uses,
         OneConnect, Active, LostIsNobodys, Held
<1>4. OneConnect'
  BY DEF TypeOK, OneConnect, Active, InConnectLogin
<1>5. LostIsNobodys'
  BY DEF TypeOK, LostIsNobodys, CallSockets, InConnectLogin
<1>6. PooledAuthenticated'
  BY DEF TypeOK, PooledAuthenticated, CallSockets, InConnectLogin
<1>7. SocketsAccountedFor'
  BY DEF TypeOK, SocketsAccountedFor, Held, CallSockets, InConnectLogin
<1>8. QED BY <1>1, <1>2, <1>3, <1>4, <1>5, <1>6, <1>7

(* AuthRaised keeps the inductive invariant.                               *)
LEMMA AuthRaisedKeepsIInv ==
  ASSUME IInv, NEW c \in Call, AuthRaised(c)
  PROVE  IInv'
<1> USE ConstantsAssumption DEF IInv, AuthRaised, Abandon, At, EndRequest,
        connectVars, serverVars
<1>1. TypeOK'
  BY DEF TypeOK, PC, Stage, CallSockets, InConnectLogin, ExclusiveSockets,
         Uses, OneConnect, Active, LostIsNobodys, Held
<1>2. ExclusiveSockets'
  BY DEF TypeOK, ExclusiveSockets, Uses, CallSockets, InConnectLogin,
         OneConnect, Active, LostIsNobodys, Held
<1>3. CallSockets'
  BY DEF TypeOK, CallSockets, InConnectLogin
<1>4. OneConnect'
  BY DEF TypeOK, OneConnect, Active, InConnectLogin
<1>5. LostIsNobodys'
  BY DEF TypeOK, LostIsNobodys, CallSockets, InConnectLogin, ExclusiveSockets,
         Uses, OneConnect, Active, Held
<1>6. PooledAuthenticated'
  BY DEF TypeOK, PooledAuthenticated, CallSockets, InConnectLogin
<1>7. SocketsAccountedFor'
  BY DEF TypeOK, SocketsAccountedFor, Held, CallSockets, InConnectLogin,
         ExclusiveSockets, Uses, OneConnect, Active, LostIsNobodys
<1>8. QED BY <1>1, <1>2, <1>3, <1>4, <1>5, <1>6, <1>7

(* Executed keeps the inductive invariant.                                 *)
LEMMA ExecutedKeepsIInv ==
  ASSUME IInv, NEW c \in Call, Executed(c)
  PROVE  IInv'
<1> USE ConstantsAssumption DEF IInv, Executed, At, connectVars, nodeVars,
        serverVars
<1>1. TypeOK'
  BY DEF TypeOK, PC, Stage
<1>2. ExclusiveSockets'
  BY DEF TypeOK, ExclusiveSockets, Uses, CallSockets
<1>3. CallSockets'
  BY DEF TypeOK, CallSockets, InConnectLogin
<1>4. OneConnect'
  BY DEF TypeOK, OneConnect, Active
<1>5. LostIsNobodys'
  BY DEF TypeOK, LostIsNobodys, CallSockets
<1>6. PooledAuthenticated'
  BY DEF TypeOK, PooledAuthenticated, CallSockets
<1>7. SocketsAccountedFor'
  BY DEF TypeOK, SocketsAccountedFor, Held, CallSockets
<1>8. QED BY <1>1, <1>2, <1>3, <1>4, <1>5, <1>6, <1>7

(* InfoReplied keeps the inductive invariant.                              *)
LEMMA InfoRepliedKeepsIInv ==
  ASSUME IInv, NEW c \in Call, InfoReplied(c)
  PROVE  IInv'
<1> USE ConstantsAssumption DEF IInv, InfoReplied, At, EndRequest,
        connectVars, ReturnSocket, CloseSocket
<1>1. TypeOK'
  BY DEF TypeOK, PC, Stage, InConnectLogin
<1>2. ExclusiveSockets'
  BY DEF TypeOK, ExclusiveSockets, Uses, CallSockets, InConnectLogin
<1>3. CallSockets'
  BY DEF TypeOK, CallSockets, InConnectLogin, ExclusiveSockets, Uses,
         OneConnect, Active, LostIsNobodys, Held
<1>4. OneConnect'
  BY DEF TypeOK, OneConnect, Active, InConnectLogin
<1>5. LostIsNobodys'
  BY DEF TypeOK, LostIsNobodys, CallSockets, InConnectLogin
<1>6. PooledAuthenticated'
  BY DEF TypeOK, PooledAuthenticated, CallSockets, InConnectLogin
<1>7. SocketsAccountedFor'
  BY DEF TypeOK, SocketsAccountedFor, Held, CallSockets, InConnectLogin
<1>8. QED BY <1>1, <1>2, <1>3, <1>4, <1>5, <1>6, <1>7

(* InfoEmpty keeps the inductive invariant.                                *)
LEMMA InfoEmptyKeepsIInv ==
  ASSUME IInv, NEW c \in Call, InfoEmpty(c)
  PROVE  IInv'
<1> USE ConstantsAssumption DEF IInv, InfoEmpty, At, CloseSocket, EndRequest,
        connectVars
<1>1. TypeOK'
  BY DEF TypeOK, PC, Stage, InConnectLogin
<1>2. ExclusiveSockets'
  BY DEF TypeOK, ExclusiveSockets, Uses, CallSockets, InConnectLogin
<1>3. CallSockets'
  BY DEF TypeOK, CallSockets, InConnectLogin, ExclusiveSockets, Uses,
         OneConnect, Active, LostIsNobodys, Held
<1>4. OneConnect'
  BY DEF TypeOK, OneConnect, Active, InConnectLogin
<1>5. LostIsNobodys'
  BY DEF TypeOK, LostIsNobodys, CallSockets, InConnectLogin
<1>6. PooledAuthenticated'
  BY DEF TypeOK, PooledAuthenticated, CallSockets, InConnectLogin
<1>7. SocketsAccountedFor'
  BY DEF TypeOK, SocketsAccountedFor, Held, CallSockets, InConnectLogin
<1>8. QED BY <1>1, <1>2, <1>3, <1>4, <1>5, <1>6, <1>7

(* AdminReplied keeps the inductive invariant.                             *)
LEMMA AdminRepliedKeepsIInv ==
  ASSUME IInv, NEW c \in Call, AdminReplied(c)
  PROVE  IInv'
<1> USE ConstantsAssumption DEF IInv, AdminReplied, AdminOutcome, At,
        EndRequest, connectVars, ReturnSocket, CloseSocket
<1>1. TypeOK'
  BY DEF TypeOK, PC, Stage, InConnectLogin
<1>2. ExclusiveSockets'
  BY DEF TypeOK, ExclusiveSockets, Uses, CallSockets, InConnectLogin
<1>3. CallSockets'
  BY DEF TypeOK, CallSockets, InConnectLogin, ExclusiveSockets, Uses,
         OneConnect, Active, LostIsNobodys, Held
<1>4. OneConnect'
  BY DEF TypeOK, OneConnect, Active, InConnectLogin
<1>5. LostIsNobodys'
  BY DEF TypeOK, LostIsNobodys, CallSockets, InConnectLogin
<1>6. PooledAuthenticated'
  BY DEF TypeOK, PooledAuthenticated, CallSockets, InConnectLogin
<1>7. SocketsAccountedFor'
  BY DEF TypeOK, SocketsAccountedFor, Held, CallSockets, InConnectLogin
<1>8. QED BY <1>1, <1>2, <1>3, <1>4, <1>5, <1>6, <1>7

(* AdminRefused keeps the inductive invariant.                             *)
LEMMA AdminRefusedKeepsIInv ==
  ASSUME IInv, NEW c \in Call, AdminRefused(c)
  PROVE  IInv'
<1> USE ConstantsAssumption DEF IInv, AdminRefused, At, CloseSocket,
        EndRequest, connectVars
<1>1. TypeOK'
  BY DEF TypeOK, PC, Stage, InConnectLogin
<1>2. ExclusiveSockets'
  BY DEF TypeOK, ExclusiveSockets, Uses, CallSockets, InConnectLogin
<1>3. CallSockets'
  BY DEF TypeOK, CallSockets, InConnectLogin, ExclusiveSockets, Uses,
         OneConnect, Active, LostIsNobodys, Held
<1>4. OneConnect'
  BY DEF TypeOK, OneConnect, Active, InConnectLogin
<1>5. LostIsNobodys'
  BY DEF TypeOK, LostIsNobodys, CallSockets, InConnectLogin
<1>6. PooledAuthenticated'
  BY DEF TypeOK, PooledAuthenticated, CallSockets, InConnectLogin
<1>7. SocketsAccountedFor'
  BY DEF TypeOK, SocketsAccountedFor, Held, CallSockets, InConnectLogin
<1>8. QED BY <1>1, <1>2, <1>3, <1>4, <1>5, <1>6, <1>7

(* RequestBroken keeps the inductive invariant.                            *)
LEMMA RequestBrokenKeepsIInv ==
  ASSUME IInv, NEW c \in Call, RequestBroken(c)
  PROVE  IInv'
<1> USE ConstantsAssumption DEF IInv, RequestBroken, At, CloseSocket,
        EndRequest, connectVars
<1>1. TypeOK'
  BY DEF TypeOK, PC, Stage, InConnectLogin
<1>2. ExclusiveSockets'
  BY DEF TypeOK, ExclusiveSockets, Uses, CallSockets, InConnectLogin
<1>3. CallSockets'
  BY DEF TypeOK, CallSockets, InConnectLogin, ExclusiveSockets, Uses,
         OneConnect, Active, LostIsNobodys, Held
<1>4. OneConnect'
  BY DEF TypeOK, OneConnect, Active, InConnectLogin
<1>5. LostIsNobodys'
  BY DEF TypeOK, LostIsNobodys, CallSockets, InConnectLogin
<1>6. PooledAuthenticated'
  BY DEF TypeOK, PooledAuthenticated, CallSockets, InConnectLogin
<1>7. SocketsAccountedFor'
  BY DEF TypeOK, SocketsAccountedFor, Held, CallSockets, InConnectLogin
<1>8. QED BY <1>1, <1>2, <1>3, <1>4, <1>5, <1>6, <1>7

(* Spin keeps the inductive invariant.                                     *)
LEMMA SpinKeepsIInv ==
  ASSUME IInv, NEW c \in Call, Spin(c)
  PROVE  IInv'
<1> USE ConstantsAssumption DEF IInv, Spin, callVars, connectVars, nodeVars,
        serverVars
<1>1. TypeOK'
  BY DEF TypeOK, PC, Stage
<1>2. ExclusiveSockets'
  BY DEF TypeOK, ExclusiveSockets, Uses, CallSockets
<1>3. CallSockets'
  BY DEF TypeOK, CallSockets, InConnectLogin
<1>4. OneConnect'
  BY DEF TypeOK, OneConnect, Active
<1>5. LostIsNobodys'
  BY DEF TypeOK, LostIsNobodys, CallSockets
<1>6. PooledAuthenticated'
  BY DEF TypeOK, PooledAuthenticated, CallSockets
<1>7. SocketsAccountedFor'
  BY DEF TypeOK, SocketsAccountedFor, Held, CallSockets
<1>8. QED BY <1>1, <1>2, <1>3, <1>4, <1>5, <1>6, <1>7

(* LoginDialled keeps the inductive invariant.                             *)
LEMMA LoginDialledKeepsIInv ==
  ASSUME IInv, NEW c \in Call, LoginDialled(c)
  PROVE  IInv'
<1> USE ConstantsAssumption DEF IInv, LoginDialled, At, connectVars, nodeVars
<1>1. TypeOK'
  BY DEF TypeOK, PC, Stage, CallSockets, InConnectLogin, ExclusiveSockets,
         Uses, OneConnect, Active, LostIsNobodys, Held
<1>2. ExclusiveSockets'
  BY DEF TypeOK, ExclusiveSockets, Uses, CallSockets
<1>3. CallSockets'
  BY DEF TypeOK, CallSockets, InConnectLogin, ExclusiveSockets, Uses,
         OneConnect, Active, LostIsNobodys, Held
<1>4. OneConnect'
  BY DEF TypeOK, OneConnect, Active
<1>5. LostIsNobodys'
  BY DEF TypeOK, LostIsNobodys, CallSockets
<1>6. PooledAuthenticated'
  BY DEF TypeOK, PooledAuthenticated, CallSockets, InConnectLogin,
         ExclusiveSockets, Uses, OneConnect, Active, LostIsNobodys, Held
<1>7. SocketsAccountedFor'
  BY DEF TypeOK, SocketsAccountedFor, Held, CallSockets
<1>8. QED BY <1>1, <1>2, <1>3, <1>4, <1>5, <1>6, <1>7

(* LoginDialFailed keeps the inductive invariant.                          *)
LEMMA LoginDialFailedKeepsIInv ==
  ASSUME IInv, NEW c \in Call, LoginDialFailed(c)
  PROVE  IInv'
<1> USE ConstantsAssumption DEF IInv, LoginDialFailed, AfterSecondLogin, At,
        EndRequest, connectVars, serverVars
<1>1. TypeOK'
  BY DEF TypeOK, PC, Stage, InConnectLogin
<1>2. ExclusiveSockets'
  BY DEF TypeOK, ExclusiveSockets, Uses, CallSockets, InConnectLogin
<1>3. CallSockets'
  BY DEF TypeOK, CallSockets, InConnectLogin
<1>4. OneConnect'
  BY DEF TypeOK, OneConnect, Active, InConnectLogin
<1>5. LostIsNobodys'
  BY DEF TypeOK, LostIsNobodys, CallSockets, InConnectLogin
<1>6. PooledAuthenticated'
  BY DEF TypeOK, PooledAuthenticated, CallSockets, InConnectLogin
<1>7. SocketsAccountedFor'
  BY DEF TypeOK, SocketsAccountedFor, Held, CallSockets, InConnectLogin
<1>8. QED BY <1>1, <1>2, <1>3, <1>4, <1>5, <1>6, <1>7

(* A login pools its socket while its call may hold another.               *)
LEMMA LoggedInKeepsIInv ==
  ASSUME IInv, NEW c \in Call, LoggedIn(c)
  PROVE  IInv'
<1> USE ConstantsAssumption DEF IInv, LoggedIn, AfterSecondLogin, At,
        GetConnection, Remainder
<1>1. TypeOK'
  <2>0. USE DEF TypeOK, PC, Stage, CallSockets, Held, Fresh, InConnectLogin
  <2>1. (pool \subseteq Sock /\ open \subseteq Sock /\ up \subseteq open
         /\ authed \subseteq open)'
    OBVIOUS
  <2>2. (/\ pc \in [Call -> PC]
         /\ conn \in [Call -> Sock \cup {NoSock}]
         /\ lconn \in [Call -> Sock \cup {NoSock}])'
    OBVIOUS
  <2>3. (at \in [Call -> Port \cup {NoPort}])'
    OBVIOUS
  <2>4. (applied \in [Call -> BOOLEAN])'
    OBVIOUS
  <2>5. QED BY <2>1, <2>2, <2>3, <2>4
<1>2. ExclusiveSockets'
  BY DEF TypeOK, ExclusiveSockets, Uses, CallSockets, Held, Fresh,
         InConnectLogin
<1>3. CallSockets'
  BY DEF TypeOK, CallSockets, InConnectLogin, ExclusiveSockets, Uses,
         OneConnect, Active, LostIsNobodys, Held, Fresh
<1>4. OneConnect'
  BY DEF TypeOK, OneConnect, Active, InConnectLogin
<1>5. LostIsNobodys'
  BY DEF TypeOK, LostIsNobodys, CallSockets, Held, Fresh, InConnectLogin
<1>6. PooledAuthenticated'
  BY DEF TypeOK, PooledAuthenticated, CallSockets, InConnectLogin
<1>7. SocketsAccountedFor'
  BY DEF TypeOK, SocketsAccountedFor, Held, CallSockets, Fresh, InConnectLogin
<1>8. QED BY <1>1, <1>2, <1>3, <1>4, <1>5, <1>6, <1>7

(* LoginNoPool keeps the inductive invariant.                              *)
LEMMA LoginNoPoolKeepsIInv ==
  ASSUME IInv, NEW c \in Call, LoginNoPool(c)
  PROVE  IInv'
<1> USE ConstantsAssumption DEF IInv, LoginNoPool, Abandon, At, EndRequest,
        connectVars, serverVars
<1>1. TypeOK'
  BY DEF TypeOK, PC, Stage, InConnectLogin
<1>2. ExclusiveSockets'
  BY DEF TypeOK, ExclusiveSockets, Uses, CallSockets, InConnectLogin
<1>3. CallSockets'
  BY DEF TypeOK, CallSockets, InConnectLogin
<1>4. OneConnect'
  BY DEF TypeOK, OneConnect, Active, InConnectLogin
<1>5. LostIsNobodys'
  BY DEF TypeOK, LostIsNobodys, CallSockets, InConnectLogin, ExclusiveSockets,
         Uses, OneConnect, Active, Held
<1>6. PooledAuthenticated'
  BY DEF TypeOK, PooledAuthenticated, CallSockets, InConnectLogin
<1>7. SocketsAccountedFor'
  BY DEF TypeOK, SocketsAccountedFor, Held, CallSockets, InConnectLogin
<1>8. QED BY <1>1, <1>2, <1>3, <1>4, <1>5, <1>6, <1>7

(* LoginRefused keeps the inductive invariant.                             *)
LEMMA LoginRefusedKeepsIInv ==
  ASSUME IInv, NEW c \in Call, LoginRefused(c)
  PROVE  IInv'
<1> USE ConstantsAssumption DEF IInv, LoginRefused, Abandon, At, CloseSocket,
        EndRequest, connectVars
<1>1. TypeOK'
  BY DEF TypeOK, PC, Stage, InConnectLogin
<1>2. ExclusiveSockets'
  BY DEF TypeOK, ExclusiveSockets, Uses, CallSockets, InConnectLogin
<1>3. CallSockets'
  BY DEF TypeOK, CallSockets, InConnectLogin, ExclusiveSockets, Uses,
         OneConnect, Active, LostIsNobodys, Held
<1>4. OneConnect'
  BY DEF TypeOK, OneConnect, Active, InConnectLogin
<1>5. LostIsNobodys'
  BY DEF TypeOK, LostIsNobodys, CallSockets, InConnectLogin, ExclusiveSockets,
         Uses, OneConnect, Active, Held
<1>6. PooledAuthenticated'
  BY DEF TypeOK, PooledAuthenticated, CallSockets, InConnectLogin
<1>7. SocketsAccountedFor'
  BY DEF TypeOK, SocketsAccountedFor, Held, CallSockets, InConnectLogin
<1>8. QED BY <1>1, <1>2, <1>3, <1>4, <1>5, <1>6, <1>7

(* LoginRaised keeps the inductive invariant.                              *)
LEMMA LoginRaisedKeepsIInv ==
  ASSUME IInv, NEW c \in Call, LoginRaised(c)
  PROVE  IInv'
<1> USE ConstantsAssumption DEF IInv, LoginRaised, Abandon, At, EndRequest,
        connectVars, serverVars
<1>1. TypeOK'
  BY DEF TypeOK, PC, Stage, InConnectLogin
<1>2. ExclusiveSockets'
  BY DEF TypeOK, ExclusiveSockets, Uses, CallSockets, InConnectLogin
<1>3. CallSockets'
  BY DEF TypeOK, CallSockets, InConnectLogin
<1>4. OneConnect'
  BY DEF TypeOK, OneConnect, Active, InConnectLogin
<1>5. LostIsNobodys'
  BY DEF TypeOK, LostIsNobodys, CallSockets, InConnectLogin, ExclusiveSockets,
         Uses, OneConnect, Active, Held
<1>6. PooledAuthenticated'
  BY DEF TypeOK, PooledAuthenticated, CallSockets, InConnectLogin
<1>7. SocketsAccountedFor'
  BY DEF TypeOK, SocketsAccountedFor, Held, CallSockets, InConnectLogin
<1>8. QED BY <1>1, <1>2, <1>3, <1>4, <1>5, <1>6, <1>7

(* StartConnect keeps the inductive invariant.                             *)
LEMMA StartConnectKeepsIInv ==
  ASSUME IInv, NEW c \in Call, StartConnect(c)
  PROVE  IInv'
<1> USE ConstantsAssumption DEF IInv, StartConnect, At, Connecting,
        GetConnection, Remainder, PoolAt, serverVars
<1>1. TypeOK'
  <2>0. USE DEF TypeOK, PC, Stage, CallSockets, Held, Fresh, InConnectLogin
  <2>1. (pool \subseteq Sock /\ open \subseteq Sock /\ up \subseteq open
         /\ authed \subseteq open)'
    OBVIOUS
  <2>2. (/\ pc \in [Call -> PC]
         /\ conn \in [Call -> Sock \cup {NoSock}]
         /\ lconn \in [Call -> Sock \cup {NoSock}])'
    OBVIOUS
  <2>3. (at \in [Call -> Port \cup {NoPort}])'
    OBVIOUS
  <2>4. (applied \in [Call -> BOOLEAN])'
    <3>1. applied' = applied \/ applied' = [applied EXCEPT ![c] = FALSE]
      OBVIOUS
    <3> QED
      BY <3>1
  <2>5. QED BY <2>1, <2>2, <2>3, <2>4
<1>2. ExclusiveSockets'
  BY DEF TypeOK, ExclusiveSockets, Uses, CallSockets, Held, Fresh
<1>3. CallSockets'
  BY DEF TypeOK, CallSockets, InConnectLogin, Held, Fresh
<1>4. OneConnect'
  BY DEF TypeOK, OneConnect, Active
<1>5. LostIsNobodys'
  BY DEF TypeOK, LostIsNobodys, CallSockets, Held, Fresh
<1>6. PooledAuthenticated'
  BY DEF TypeOK, PooledAuthenticated, CallSockets
<1>7. SocketsAccountedFor'
  BY DEF TypeOK, SocketsAccountedFor, Held, CallSockets, Fresh
<1>8. QED BY <1>1, <1>2, <1>3, <1>4, <1>5, <1>6, <1>7

(* close() closes a pooled socket.                                         *)
LEMMA DrainKeepsIInv ==
  ASSUME IInv, NEW c \in Call, Drain(c)
  PROVE  IInv'
<1> USE ConstantsAssumption DEF IInv, Drain, At, CloseSocket, PoolAt,
        Remainder, callVars, connectVars
<1>1. TypeOK'
  BY DEF TypeOK, PC, Stage
<1>2. ExclusiveSockets'
  BY DEF TypeOK, ExclusiveSockets, Uses, CallSockets
<1>3. CallSockets'
  BY DEF TypeOK, CallSockets, InConnectLogin, ExclusiveSockets, Uses,
         OneConnect, Active, LostIsNobodys, Held
<1>4. OneConnect'
  BY DEF TypeOK, OneConnect, Active
<1>5. LostIsNobodys'
  BY DEF TypeOK, LostIsNobodys, CallSockets
<1>6. PooledAuthenticated'
  BY DEF TypeOK, PooledAuthenticated, CallSockets
<1>7. SocketsAccountedFor'
  BY DEF TypeOK, SocketsAccountedFor, Held, CallSockets
<1>8. QED BY <1>1, <1>2, <1>3, <1>4, <1>5, <1>6, <1>7

(* connect replaces the pool and goes to an address.                       *)
LEMMA ReinitializeKeepsIInv ==
  ASSUME IInv, NEW c \in Call, Reinitialize(c)
  PROVE  IInv'
<1> USE ConstantsAssumption DEF IInv, Reinitialize, TryAddress, Asked, Abandon,
        At, PoolDrained, PoolAt, serverVars
<1>1. TypeOK'
  <2>0. USE DEF TypeOK, PC, Stage
  <2>1. (/\ pc \in [Call -> PC]
         /\ at \in [Call -> Port \cup {NoPort}]
         /\ applied \in [Call -> BOOLEAN])'
    <3>1. pc' = [pc EXCEPT ![c] = "dial"] \/ pc' = [pc EXCEPT ![c] = "gather"]
      OBVIOUS
    <3>2. at' = at \/ at' = [at EXCEPT ![c] = port]
      OBVIOUS
    <3>3. applied' = applied \/ applied' = [applied EXCEPT ![c] = FALSE]
      OBVIOUS
    <3>4. pc' \in [Call -> PC]
      BY <3>1
    <3>5. at' \in [Call -> Port \cup {NoPort}]
      BY <3>2
    <3>6. applied' \in [Call -> BOOLEAN]
      BY <3>3
    <3> QED
      BY <3>4, <3>5, <3>6
  <2>2. (conn \in [Call -> Sock \cup {NoSock}])'
    BY DEF Fresh
  <2>3. (/\ port \in Port /\ poolPort \in Port \cup {NoPort} /\ todo \subseteq Port
         /\ wanted \subseteq Asked /\ part \in [Call -> Asked \cup {"none"}])'
    OBVIOUS
  <2>4. (stage \in Stage /\ pool \subseteq Sock /\ lost \subseteq Sock)'
    OBVIOUS
  <2>5. QED BY <2>1, <2>2, <2>3, <2>4
<1>2. ExclusiveSockets'
  BY DEF TypeOK, ExclusiveSockets, Uses, CallSockets, Held, Fresh
<1>3. CallSockets'
  BY DEF TypeOK, CallSockets, InConnectLogin, Held, Fresh
<1>4. OneConnect'
  BY DEF TypeOK, OneConnect, Active
<1>5. LostIsNobodys'
  BY DEF TypeOK, LostIsNobodys, CallSockets, InConnectLogin, ExclusiveSockets,
         Uses, OneConnect, Active, Held, Fresh
<1>6. PooledAuthenticated'
  BY DEF TypeOK, PooledAuthenticated, CallSockets
<1>7. SocketsAccountedFor'
  BY DEF TypeOK, SocketsAccountedFor, Held, CallSockets, Fresh
<1>8. QED BY <1>1, <1>2, <1>3, <1>4, <1>5, <1>6, <1>7

(* A request of a gather starts, as another does.                          *)
LEMMA BeginGatheredKeepsIInv ==
  ASSUME IInv, NEW c \in Call, NEW d \in Call, NEW r, BeginGathered(c, d, r)
  PROVE  IInv'
<1> USE ConstantsAssumption DEF IInv, BeginGathered, Asked, At,
        GetConnection, Remainder, PoolAt, serverVars
<1>1. TypeOK'
  BY DEF TypeOK, PC, Stage, Held, Fresh
<1>2. ExclusiveSockets'
  BY DEF TypeOK, ExclusiveSockets, Uses, CallSockets, Held, Fresh
<1>3. CallSockets'
  BY DEF TypeOK, CallSockets, InConnectLogin, Held, Fresh
<1>4. OneConnect'
  BY DEF TypeOK, OneConnect, Active
<1>5. LostIsNobodys'
  BY DEF TypeOK, LostIsNobodys, CallSockets, Held, Fresh
<1>6. PooledAuthenticated'
  BY DEF TypeOK, PooledAuthenticated, CallSockets
<1>7. SocketsAccountedFor'
  BY DEF TypeOK, SocketsAccountedFor, Held, CallSockets, Fresh
<1>8. QED BY <1>1, <1>2, <1>3, <1>4, <1>5, <1>6, <1>7

(* GatherEnded keeps the inductive invariant.                              *)
LEMMA GatherEndedKeepsIInv ==
  ASSUME IInv, NEW c \in Call, GatherEnded(c)
  PROVE  IInv'
<1> USE ConstantsAssumption DEF IInv, GatherEnded, At,
        nodeVars, serverVars
<1>1. TypeOK'
  BY DEF TypeOK, PC, Stage
<1>2. ExclusiveSockets'
  BY DEF TypeOK, ExclusiveSockets, Uses, CallSockets
<1>3. CallSockets'
  BY DEF TypeOK, CallSockets, InConnectLogin
<1>4. OneConnect'
  BY DEF TypeOK, OneConnect, Active
<1>5. LostIsNobodys'
  BY DEF TypeOK, LostIsNobodys, CallSockets
<1>6. PooledAuthenticated'
  BY DEF TypeOK, PooledAuthenticated, CallSockets
<1>7. SocketsAccountedFor'
  BY DEF TypeOK, SocketsAccountedFor, Held, CallSockets
<1>8. QED BY <1>1, <1>2, <1>3, <1>4, <1>5, <1>6, <1>7

(* Unresolved keeps the inductive invariant.                               *)
LEMMA UnresolvedKeepsIInv ==
  ASSUME IInv, NEW c \in Call, Unresolved(c)
  PROVE  IInv'
<1> USE ConstantsAssumption DEF IInv, Unresolved, TryAddress, Asked,
        At, serverVars
<1>1. TypeOK'
  BY DEF TypeOK, PC, Stage
<1>2. ExclusiveSockets'
  BY DEF TypeOK, ExclusiveSockets, Uses, CallSockets
<1>3. CallSockets'
  BY DEF TypeOK, CallSockets, InConnectLogin
<1>4. OneConnect'
  BY DEF TypeOK, OneConnect, Active
<1>5. LostIsNobodys'
  BY DEF TypeOK, LostIsNobodys, CallSockets
<1>6. PooledAuthenticated'
  BY DEF TypeOK, PooledAuthenticated, CallSockets
<1>7. SocketsAccountedFor'
  BY DEF TypeOK, SocketsAccountedFor, Held, CallSockets
<1>8. QED BY <1>1, <1>2, <1>3, <1>4, <1>5, <1>6, <1>7

(* NextAddress keeps the inductive invariant.                              *)
LEMMA NextAddressKeepsIInv ==
  ASSUME IInv, NEW c \in Call, NextAddress(c)
  PROVE  IInv'
<1> USE ConstantsAssumption DEF IInv, NextAddress, TryAddress, Asked,
        At, serverVars
<1>1. TypeOK'
  BY DEF TypeOK, PC, Stage
<1>2. ExclusiveSockets'
  BY DEF TypeOK, ExclusiveSockets, Uses, CallSockets
<1>3. CallSockets'
  BY DEF TypeOK, CallSockets, InConnectLogin
<1>4. OneConnect'
  BY DEF TypeOK, OneConnect, Active
<1>5. LostIsNobodys'
  BY DEF TypeOK, LostIsNobodys, CallSockets
<1>6. PooledAuthenticated'
  BY DEF TypeOK, PooledAuthenticated, CallSockets
<1>7. SocketsAccountedFor'
  BY DEF TypeOK, SocketsAccountedFor, Held, CallSockets
<1>8. QED BY <1>1, <1>2, <1>3, <1>4, <1>5, <1>6, <1>7

(* AddressAnswered keeps the inductive invariant.                          *)
LEMMA AddressAnsweredKeepsIInv ==
  ASSUME IInv, NEW c \in Call, AddressAnswered(c)
  PROVE  IInv'
<1> USE ConstantsAssumption DEF IInv, AddressAnswered, At, GetConnection,
        Remainder, PoolAt, serverVars
<1>1. TypeOK'
  BY DEF TypeOK, PC, Stage, Held, Fresh
<1>2. ExclusiveSockets'
  BY DEF TypeOK, ExclusiveSockets, Uses, CallSockets, Held, Fresh
<1>3. CallSockets'
  BY DEF TypeOK, CallSockets, InConnectLogin, Held, Fresh
<1>4. OneConnect'
  BY DEF TypeOK, OneConnect, Active
<1>5. LostIsNobodys'
  BY DEF TypeOK, LostIsNobodys, CallSockets, Held, Fresh
<1>6. PooledAuthenticated'
  BY DEF TypeOK, PooledAuthenticated, CallSockets
<1>7. SocketsAccountedFor'
  BY DEF TypeOK, SocketsAccountedFor, Held, CallSockets, Fresh
<1>8. QED BY <1>1, <1>2, <1>3, <1>4, <1>5, <1>6, <1>7

(* Connected keeps the inductive invariant.                                *)
LEMMA ConnectedKeepsIInv ==
  ASSUME IInv, NEW c \in Call, Connected(c)
  PROVE  IInv'
<1> USE ConstantsAssumption DEF IInv, Connected, At, EndConnect, serverVars
<1>1. TypeOK'
  BY DEF TypeOK, PC, Stage
<1>2. ExclusiveSockets'
  BY DEF TypeOK, ExclusiveSockets, Uses, CallSockets
<1>3. CallSockets'
  BY DEF TypeOK, CallSockets, InConnectLogin
<1>4. OneConnect'
  BY DEF TypeOK, OneConnect, Active
<1>5. LostIsNobodys'
  BY DEF TypeOK, LostIsNobodys, CallSockets
<1>6. PooledAuthenticated'
  BY DEF TypeOK, PooledAuthenticated, CallSockets
<1>7. SocketsAccountedFor'
  BY DEF TypeOK, SocketsAccountedFor, Held, CallSockets
<1>8. QED BY <1>1, <1>2, <1>3, <1>4, <1>5, <1>6, <1>7

(* FakeNode keeps the inductive invariant.                                 *)
LEMMA FakeNodeKeepsIInv ==
  ASSUME IInv, NEW c \in Call, FakeNode(c)
  PROVE  IInv'
<1> USE ConstantsAssumption DEF IInv, FakeNode, ConnectFailed, At, EndConnect,
        serverVars
<1>1. TypeOK'
  BY DEF TypeOK, PC, Stage, CallSockets, InConnectLogin, ExclusiveSockets,
         Uses, OneConnect, Active, LostIsNobodys, Held
<1>2. ExclusiveSockets'
  BY DEF TypeOK, ExclusiveSockets, Uses, CallSockets
<1>3. CallSockets'
  BY DEF TypeOK, CallSockets, InConnectLogin, ExclusiveSockets, Uses,
         OneConnect, Active, LostIsNobodys, Held
<1>4. OneConnect'
  BY DEF TypeOK, OneConnect, Active
<1>5. LostIsNobodys'
  BY DEF TypeOK, LostIsNobodys, CallSockets
<1>6. PooledAuthenticated'
  BY DEF TypeOK, PooledAuthenticated, CallSockets
<1>7. SocketsAccountedFor'
  BY DEF TypeOK, SocketsAccountedFor, Held, CallSockets
<1>8. QED BY <1>1, <1>2, <1>3, <1>4, <1>5, <1>6, <1>7

(* RaiseRefusal keeps the inductive invariant.                             *)
LEMMA RaiseRefusalKeepsIInv ==
  ASSUME IInv, NEW c \in Call, RaiseRefusal(c)
  PROVE  IInv'
<1> USE ConstantsAssumption DEF IInv, RaiseRefusal, ConnectFailed, At,
        EndConnect, serverVars
<1>1. TypeOK'
  BY DEF TypeOK, PC, Stage
<1>2. ExclusiveSockets'
  BY DEF TypeOK, ExclusiveSockets, Uses, CallSockets
<1>3. CallSockets'
  BY DEF TypeOK, CallSockets, InConnectLogin, ExclusiveSockets, Uses,
         OneConnect, Active, LostIsNobodys, Held
<1>4. OneConnect'
  BY DEF TypeOK, OneConnect, Active
<1>5. LostIsNobodys'
  BY DEF TypeOK, LostIsNobodys, CallSockets
<1>6. PooledAuthenticated'
  BY DEF TypeOK, PooledAuthenticated, CallSockets
<1>7. SocketsAccountedFor'
  BY DEF TypeOK, SocketsAccountedFor, Held, CallSockets
<1>8. QED BY <1>1, <1>2, <1>3, <1>4, <1>5, <1>6, <1>7

(* CloseNode keeps the inductive invariant.                                *)
LEMMA CloseNodeKeepsIInv ==
  ASSUME IInv, CloseNode
  PROVE  IInv'
<1> USE ConstantsAssumption DEF IInv, CloseNode, Abandon, PoolAt, callVars,
        connectVars
<1>1. TypeOK'
  BY DEF TypeOK, PC, Stage
<1>2. ExclusiveSockets'
  BY DEF TypeOK, ExclusiveSockets, Uses, CallSockets
<1>3. CallSockets'
  BY DEF TypeOK, CallSockets, InConnectLogin
<1>4. OneConnect'
  BY DEF TypeOK, OneConnect, Active
<1>5. LostIsNobodys'
  BY DEF TypeOK, LostIsNobodys, CallSockets
<1>6. PooledAuthenticated'
  BY DEF TypeOK, PooledAuthenticated, CallSockets
<1>7. SocketsAccountedFor'
  BY DEF TypeOK, SocketsAccountedFor, Held, CallSockets
<1>8. QED BY <1>1, <1>2, <1>3, <1>4, <1>5, <1>6, <1>7

(* ConnectionDrops keeps the inductive invariant.                          *)
LEMMA ConnectionDropsKeepsIInv ==
  ASSUME IInv, NEW s \in Sock, ConnectionDrops(s)
  PROVE  IInv'
<1> USE ConstantsAssumption DEF IInv, ConnectionDrops, callVars, connectVars,
        nodeVars
<1>1. TypeOK'
  BY DEF TypeOK, PC, Stage
<1>2. ExclusiveSockets'
  BY DEF TypeOK, ExclusiveSockets, Uses, CallSockets
<1>3. CallSockets'
  BY DEF TypeOK, CallSockets, InConnectLogin
<1>4. OneConnect'
  BY DEF TypeOK, OneConnect, Active
<1>5. LostIsNobodys'
  BY DEF TypeOK, LostIsNobodys, CallSockets
<1>6. PooledAuthenticated'
  BY DEF TypeOK, PooledAuthenticated, CallSockets
<1>7. SocketsAccountedFor'
  BY DEF TypeOK, SocketsAccountedFor, Held, CallSockets
<1>8. QED BY <1>1, <1>2, <1>3, <1>4, <1>5, <1>6, <1>7

(* ServerRestarts keeps the inductive invariant.                           *)
LEMMA ServerRestartsKeepsIInv ==
  ASSUME IInv, ServerRestarts
  PROVE  IInv'
<1> USE ConstantsAssumption DEF IInv, ServerRestarts, callVars, connectVars
<1>1. TypeOK'
  BY DEF TypeOK, PC, Stage
<1>2. ExclusiveSockets'
  BY DEF TypeOK, ExclusiveSockets, Uses, CallSockets
<1>3. CallSockets'
  BY DEF TypeOK, CallSockets, InConnectLogin
<1>4. OneConnect'
  BY DEF TypeOK, OneConnect, Active
<1>5. LostIsNobodys'
  BY DEF TypeOK, LostIsNobodys, CallSockets
<1>6. PooledAuthenticated'
  BY DEF TypeOK, PooledAuthenticated, CallSockets
<1>7. SocketsAccountedFor'
  BY DEF TypeOK, SocketsAccountedFor, Held, CallSockets
<1>8. QED BY <1>1, <1>2, <1>3, <1>4, <1>5, <1>6, <1>7

(* SessionExpires keeps the inductive invariant.                           *)
LEMMA SessionExpiresKeepsIInv ==
  ASSUME IInv, SessionExpires
  PROVE  IInv'
<1> USE ConstantsAssumption DEF IInv, SessionExpires, callVars, connectVars,
        serverVars
<1>1. TypeOK'
  BY DEF TypeOK, PC, Stage
<1>2. ExclusiveSockets'
  BY DEF TypeOK, ExclusiveSockets, Uses, CallSockets
<1>3. CallSockets'
  BY DEF TypeOK, CallSockets, InConnectLogin
<1>4. OneConnect'
  BY DEF TypeOK, OneConnect, Active
<1>5. LostIsNobodys'
  BY DEF TypeOK, LostIsNobodys, CallSockets
<1>6. PooledAuthenticated'
  BY DEF TypeOK, PooledAuthenticated, CallSockets
<1>7. SocketsAccountedFor'
  BY DEF TypeOK, SocketsAccountedFor, Held, CallSockets
<1>8. QED BY <1>1, <1>2, <1>3, <1>4, <1>5, <1>6, <1>7

(* SessionRevoked keeps the inductive invariant.                           *)
LEMMA SessionRevokedKeepsIInv ==
  ASSUME IInv, SessionRevoked
  PROVE  IInv'
<1> USE ConstantsAssumption DEF IInv, SessionRevoked, callVars, connectVars,
        serverVars
<1>1. TypeOK'
  BY DEF TypeOK, PC, Stage
<1>2. ExclusiveSockets'
  BY DEF TypeOK, ExclusiveSockets, Uses, CallSockets
<1>3. CallSockets'
  BY DEF TypeOK, CallSockets, InConnectLogin
<1>4. OneConnect'
  BY DEF TypeOK, OneConnect, Active
<1>5. LostIsNobodys'
  BY DEF TypeOK, LostIsNobodys, CallSockets
<1>6. PooledAuthenticated'
  BY DEF TypeOK, PooledAuthenticated, CallSockets
<1>7. SocketsAccountedFor'
  BY DEF TypeOK, SocketsAccountedFor, Held, CallSockets
<1>8. QED BY <1>1, <1>2, <1>3, <1>4, <1>5, <1>6, <1>7

(* The interpreter closes a lost socket.                                   *)
LEMMA CollectKeepsIInv ==
  ASSUME IInv, NEW s \in Sock, Collect(s)
  PROVE  IInv'
<1> USE ConstantsAssumption DEF IInv, Collect, CloseSocket, callVars,
        connectVars, nodeVars
<1>1. TypeOK'
  BY DEF TypeOK, PC, Stage
<1>2. ExclusiveSockets'
  BY DEF TypeOK, ExclusiveSockets, Uses, CallSockets
<1>3. CallSockets'
  BY DEF TypeOK, CallSockets, InConnectLogin, ExclusiveSockets, Uses,
         OneConnect, Active, LostIsNobodys, Held
<1>4. OneConnect'
  BY DEF TypeOK, OneConnect, Active
<1>5. LostIsNobodys'
  BY DEF TypeOK, LostIsNobodys, CallSockets
<1>6. PooledAuthenticated'
  BY DEF TypeOK, PooledAuthenticated, CallSockets
<1>7. SocketsAccountedFor'
  BY DEF TypeOK, SocketsAccountedFor, Held, CallSockets
<1>8. QED BY <1>1, <1>2, <1>3, <1>4, <1>5, <1>6, <1>7

-----------------------------------------------------------------------------
(* A step of the system, or none, keeps IInv.                              *)
LEMMA NextIInv == IInv /\ [Next]_vars => IInv'
<1> SUFFICES ASSUME IInv, [Next]_vars PROVE IInv'
  OBVIOUS
<1>1. ASSUME NEW c \in Call, Start(c) PROVE IInv'
  BY <1>1, StartRequestKeepsIInv, StartConnectKeepsIInv DEF Start
<1>2. ASSUME NEW c \in Call, CallStep(c) PROVE IInv'
  BY <1>2, ProbeAnsweredKeepsIInv, ProbeFailedKeepsIInv, DiscardedKeepsIInv,
     DialledKeepsIInv, DialFailedKeepsIInv, AuthenticatedKeepsIInv,
     LoginAgainKeepsIInv, AuthRefusedKeepsIInv, AuthRaisedKeepsIInv,
     ExecutedKeepsIInv, InfoRepliedKeepsIInv, InfoEmptyKeepsIInv,
     AdminRepliedKeepsIInv, AdminRefusedKeepsIInv, RequestBrokenKeepsIInv,
     SpinKeepsIInv, LoginDialledKeepsIInv, LoginDialFailedKeepsIInv,
     LoggedInKeepsIInv, LoginNoPoolKeepsIInv, LoginRefusedKeepsIInv,
     LoginRaisedKeepsIInv, DrainKeepsIInv, ReinitializeKeepsIInv,
     BeginGatheredKeepsIInv, GatherEndedKeepsIInv, UnresolvedKeepsIInv,
     NextAddressKeepsIInv, AddressAnsweredKeepsIInv, ConnectedKeepsIInv,
     FakeNodeKeepsIInv, RaiseRefusalKeepsIInv
     DEF CallStep
<1>3. CASE CloseNode
  BY <1>3, CloseNodeKeepsIInv
<1>4. CASE Environment
  BY <1>4, ServerRestartsKeepsIInv, SessionExpiresKeepsIInv,
     SessionRevokedKeepsIInv, ConnectionDropsKeepsIInv, CollectKeepsIInv
     DEF Environment
<1>5. CASE UNCHANGED vars
  BY <1>5 DEF vars, nodeVars, serverVars, connectVars, callVars, IInv, TypeOK,
     ExclusiveSockets, Uses, CallSockets, InConnectLogin, OneConnect, Active,
     LostIsNobodys, PooledAuthenticated, SocketsAccountedFor, Held
<1>6. QED BY <1>1, <1>2, <1>3, <1>4, <1>5 DEF Next

(* IInv holds throughout.                                                  *)
LEMMA SpecIInv == Spec => []IInv
  BY InitIInv, NextIInv, PTL DEF Spec

(* Every variable of a Node keeps its type.                                *)
THEOREM SpecTypeOK == Spec => []TypeOK
<1>1. IInv => TypeOK
  BY DEF IInv
<1>2. QED BY <1>1, SpecIInv, PTL

(* No socket is ever shared: not between two calls, not between a call and *)
(* the pool, whatever requests, logins, refreshes, drops and restarts      *)
(* happen.                                                                 *)
THEOREM SpecExclusiveSockets == Spec => []ExclusiveSockets
<1>1. IInv => ExclusiveSockets
  BY DEF IInv
<1>2. QED BY <1>1, SpecIInv, PTL

(* No request goes out on a closed socket or, to a server with security,   *)
(* on one that server has not authenticated.                               *)
THEOREM SpecAuthenticatedUse == Spec => []AuthenticatedUse
<1>1. IInv => AuthenticatedUse
  BY DEF IInv, AuthenticatedUse, CallSockets, PooledAuthenticated
<1>2. QED BY <1>1, SpecIInv, PTL

(* Every open socket is in the pool, in a call, or among those abandoned   *)
(* by one of the failures of authenticate and login, or by a change of     *)
(* port.                                                                   *)
THEOREM SpecSocketsAccountedFor == Spec => []SocketsAccountedFor
<1>1. IInv => SocketsAccountedFor
  BY DEF IInv
<1>2. QED BY <1>1, SpecIInv, PTL

-----------------------------------------------------------------------------
(* How large the pool of a Node can become.  Returned sockets look at its  *)
(* size, sockets of logins do not, so the size is bounded by the logins    *)
(* that can still come: a request dials only when it has found its pool    *)
(* empty, and logs in at most once before it looks again.                  *)

(* The calls that may add a socket without looking again: they dial or     *)
(* will, at a port that is not the pool's.                                 *)
Late == {c \in Call :
  /\ ~InConnectLogin(c)
  /\ \/ pc[c] \in {"dial", "auth", "ldial", "lauth"}
     \/ pc[c] \in {"probe", "discard"} /\ at[c] # poolPort}

(* A connect begins at the node's port, and goes through the service       *)
(* addresses with a pool for the port it began at, which it tries once.    *)
HomePort ==
  /\ stage # "none" => \E c \in Call : Active(c)
  /\ stage \in {"login", "node"} => home = port
  /\ stage = "address" => home = poolPort /\ (port = poolPort => poolPort \notin todo)

(* How many sockets the pool has, and will have with the logins to come.   *)
(* While the node's port is another than the pool's nothing logs in.       *)
SizeWithin ==
  LET others == Cardinality(Call) - 1
      size   == Cardinality(pool)
      logins == Cardinality(Late)
  IN  /\ IsFiniteSet(pool)
      /\ port # poolPort /\ stage = "address" /\ poolPort \in todo => size <= MaxPool
      /\ port # poolPort => size <= MaxPool + others
      /\ port = poolPort /\ stage = "address" => size + logins <= MaxPool + others
      /\ port = poolPort => size + logins <= MaxPool + 2 * others

(* The calls are finitely many coroutines, and there are some.             *)
FiniteCalls == IsFiniteSet(Call) /\ Call # {}

(* The step leaves the ports alone, and no search of addresses begins.     *)
SamePorts == /\ UNCHANGED <<port, poolPort>>
             /\ stage' = "address" => stage = "address" /\ todo' = todo
-----------------------------------------------------------------------------
(* Parts of a finite set are finite and no larger.                         *)
LEMMA PartCount ==
  ASSUME NEW S, IsFiniteSet(S), NEW T, T \subseteq S
  PROVE  IsFiniteSet(T) /\ Cardinality(T) \in Nat /\ Cardinality(T) <= Cardinality(S)
  BY FS_Subset, FS_CardinalityType

(* One element more or less.                                               *)
LEMMA OneMore ==
  ASSUME NEW S, IsFiniteSet(S), NEW x
  PROVE  /\ IsFiniteSet(S \cup {x})
         /\ Cardinality(S) \in Nat /\ Cardinality(S \cup {x}) \in Nat
         /\ Cardinality(S \cup {x}) <= Cardinality(S) + 1
<1>1. IsFiniteSet(S \cup {x})
      /\ (Cardinality(S \cup {x}) = Cardinality(S) \/ Cardinality(S \cup {x}) = Cardinality(S) + 1)
  BY FS_AddElement
<1>2. Cardinality(S) \in Nat
  BY FS_CardinalityType
<1> QED
  BY <1>1, <1>2

(* One element less.                                                       *)
LEMMA OneLess ==
  ASSUME NEW S, IsFiniteSet(S), NEW x \in S, NEW T, T \subseteq S \ {x}
  PROVE  IsFiniteSet(T) /\ Cardinality(T) \in Nat /\ Cardinality(T) <= Cardinality(S) - 1
<1>1. IsFiniteSet(S \ {x}) /\ Cardinality(S \ {x}) = Cardinality(S) - 1
  BY FS_RemoveElement
<1> QED
  BY <1>1, PartCount

(* Late is a set of calls: the facts about its size that the cases below   *)
(* use.                                                                    *)
LEMMA LateCount ==
  ASSUME FiniteCalls
  PROVE  /\ IsFiniteSet(Late) /\ IsFiniteSet(Late')
         /\ Cardinality(Late) \in Nat /\ Cardinality(Late') \in Nat
         /\ Cardinality(Call) \in Nat /\ Cardinality(Call) >= 1
         /\ Cardinality(Late) <= Cardinality(Call)
         /\ Cardinality(Late') <= Cardinality(Call)
<1>1. Late \subseteq Call /\ Late' \subseteq Call
  BY DEF Late
<1>2. Cardinality(Call) \in Nat /\ Cardinality(Call) # 0
  BY FS_CardinalityType, FS_EmptySet DEF FiniteCalls
<1> QED
  BY <1>1, <1>2, PartCount DEF FiniteCalls

(* A call that is not late leaves at most the others.                      *)
LEMMA OneNotLate ==
  ASSUME FiniteCalls, NEW c \in Call, c \notin Late'
  PROVE  Cardinality(Late') <= Cardinality(Call) - 1
<1>1. Late' \subseteq Call \ {c}
  BY DEF Late
<1> QED
  BY <1>1, OneLess DEF FiniteCalls

(* A step that adds neither a socket nor a login to come.                  *)
LEMMA Shrinks ==
  ASSUME FiniteCalls, SizeWithin, SamePorts, pool' \subseteq pool, Late' \subseteq Late
  PROVE  SizeWithin'
<1>1. IsFiniteSet(pool') /\ Cardinality(pool') \in Nat /\ Cardinality(pool) \in Nat
      /\ Cardinality(pool') <= Cardinality(pool)
  BY PartCount DEF SizeWithin
<1>2. Cardinality(Late') <= Cardinality(Late)
  BY LateCount, PartCount
<1> QED
  BY <1>1, <1>2, LateCount, ConstantsAssumption DEF SizeWithin, SamePorts

(* A step that empties the pool may let every call log in.                 *)
LEMMA Clears ==
  ASSUME FiniteCalls, pool' = {}
  PROVE  SizeWithin'
<1>1. IsFiniteSet(pool') /\ Cardinality(pool') = 0
  BY FS_EmptySet
<1> QED
  BY <1>1, LateCount, ConstantsAssumption DEF SizeWithin

(* A step of a call that returns its socket: it has seen the size of the   *)
(* pool, and will not log in before it looks again.                        *)
LEMMA Returns ==
  ASSUME FiniteCalls, SizeWithin, SamePorts, NEW s, pool' \subseteq pool \cup {s},
         Cardinality(pool) < MaxPool, NEW c \in Call, c \notin Late'
  PROVE  SizeWithin'
<1>1. IsFiniteSet(pool') /\ Cardinality(pool') \in Nat /\ Cardinality(pool) \in Nat
      /\ Cardinality(pool') <= Cardinality(pool) + 1
  <2>1. IsFiniteSet(pool \cup {s}) /\ Cardinality(pool) \in Nat
        /\ Cardinality(pool \cup {s}) \in Nat
        /\ Cardinality(pool \cup {s}) <= Cardinality(pool) + 1
    BY OneMore DEF SizeWithin
  <2> QED
    BY <2>1, PartCount
<1>2. Cardinality(Late') <= Cardinality(Call) - 1
  BY OneNotLate
<1> QED
  BY <1>1, <1>2, LateCount, ConstantsAssumption DEF SizeWithin

(* The login of a request: the pool has a socket more, and there is one    *)
(* login less to come.                                                     *)
LEMMA LogsIn ==
  ASSUME FiniteCalls, SizeWithin, SamePorts, port = poolPort,
         NEW s, pool' \subseteq pool \cup {s},
         NEW c \in Late, Late' \subseteq Late \ {c}
  PROVE  SizeWithin'
<1>1. IsFiniteSet(pool') /\ Cardinality(pool') \in Nat /\ Cardinality(pool) \in Nat
      /\ Cardinality(pool') <= Cardinality(pool) + 1
  <2>1. IsFiniteSet(pool \cup {s}) /\ Cardinality(pool) \in Nat
        /\ Cardinality(pool \cup {s}) \in Nat
        /\ Cardinality(pool \cup {s}) <= Cardinality(pool) + 1
    BY OneMore DEF SizeWithin
  <2> QED
    BY <2>1, PartCount
<1>2. Cardinality(Late') <= Cardinality(Late) - 1
  BY LateCount, OneLess
<1> QED
  BY <1>1, <1>2, LateCount, ConstantsAssumption DEF SizeWithin, SamePorts

(* The login of a connect: it adds a socket, and the request that follows  *)
(* takes one.                                                              *)
LEMMA Swaps ==
  ASSUME FiniteCalls, SizeWithin, SamePorts, NEW s, NEW t \in pool \cup {s},
         pool' \subseteq (pool \cup {s}) \ {t}, Late' \subseteq Late
  PROVE  SizeWithin'
<1>1. IsFiniteSet(pool \cup {s}) /\ Cardinality(pool \cup {s}) <= Cardinality(pool) + 1
      /\ Cardinality(pool) \in Nat /\ Cardinality(pool \cup {s}) \in Nat
  BY OneMore, FS_CardinalityType DEF SizeWithin
<1>2. IsFiniteSet(pool') /\ Cardinality(pool') \in Nat
      /\ Cardinality(pool') <= Cardinality(pool \cup {s}) - 1
  BY <1>1, OneLess
<1>3. Cardinality(Late') <= Cardinality(Late)
  BY LateCount, PartCount
<1> QED
  BY <1>1, <1>2, <1>3, LateCount, ConstantsAssumption DEF SizeWithin, SamePorts

(* While the node's port is not the pool's, it does not matter who will    *)
(* log in.                                                                 *)
LEMMA ShrinksAway ==
  ASSUME FiniteCalls, SizeWithin, SamePorts, pool' \subseteq pool, port # poolPort
  PROVE  SizeWithin'
<1>1. IsFiniteSet(pool') /\ Cardinality(pool') \in Nat /\ Cardinality(pool) \in Nat
      /\ Cardinality(pool') <= Cardinality(pool)
  BY PartCount, FS_CardinalityType DEF SizeWithin
<1> QED
  BY <1>1, LateCount, ConstantsAssumption DEF SizeWithin, SamePorts

(* _get_connection, which may make its call late: it takes a socket, or    *)
(* finds the pool empty, or asks a port at which nothing can log in, or    *)
(* was late before.                                                        *)
LEMMA GetConnectionKeepsSize ==
  ASSUME FiniteCalls, TypeOK, SizeWithin, SamePorts, NEW c \in Call, NEW p,
         GetConnection(c, p, PoolAt(p)),
         p = poolPort \/ port # poolPort \/ c \in Late,
         Late' \subseteq Late \cup {c}
  PROVE  SizeWithin'
<1>1. CASE p = poolPort /\ pc'[c] = "probe"
  <2>1. pool' \subseteq pool
    BY <1>1 DEF GetConnection, PoolAt, Remainder, TypeOK
  <2>2. c \notin Late'
    BY <1>1 DEF GetConnection, Late, TypeOK, SamePorts
  <2> QED
    BY <2>1, <2>2, Shrinks
<1>2. CASE p = poolPort /\ pc'[c] # "probe"
  <2>1. pool' = {}
    BY <1>2 DEF GetConnection, PoolAt, TypeOK
  <2> QED
    BY <2>1, Clears
<1>3. CASE p # poolPort
  <2>1. pool' = pool
    BY <1>3 DEF GetConnection, PoolAt
  <2>2. CASE port # poolPort
    BY <2>1, <2>2, ShrinksAway
  <2>3. CASE c \in Late
    BY <2>1, <2>3, Shrinks
  <2> QED
    BY <1>3, <2>2, <2>3
<1> QED
  BY <1>1, <1>2, <1>3

(* The search goes on at the next address: the port may be the pool's      *)
(* again, or no longer, and the connect's own call is not late.            *)
LEMMA TriesAddress ==
  ASSUME FiniteCalls, TypeOK, HomePort, SizeWithin, NEW c \in Call, NEW q \in todo,
         TryAddress(c, q), todo' = todo \ {q}, stage = "address",
         UNCHANGED <<stage, poolPort, pool>>
  PROVE  SizeWithin'
<1> USE DEF TypeOK, TryAddress
<1>1. IsFiniteSet(pool) /\ Cardinality(pool) \in Nat
  BY FS_CardinalityType DEF SizeWithin
<1>2. Cardinality(Late') <= Cardinality(Call) - 1
  BY OneNotLate DEF Late
<1>3. poolPort \in todo => Cardinality(pool) <= MaxPool
  BY DEF HomePort, SizeWithin
<1>4. Cardinality(pool) <= MaxPool + (Cardinality(Call) - 1)
  BY <1>1, LateCount, ConstantsAssumption DEF SizeWithin
<1> QED
  BY <1>1, <1>2, <1>3, <1>4, LateCount, ConstantsAssumption DEF SizeWithin

-----------------------------------------------------------------------------
(* No connect runs at first.                                               *)
LEMMA InitHomePort == Init => HomePort
  BY DEF Init, HomePort

(* Every step keeps what is said of the ports of a connect.                *)
LEMMA HomePortStep ==
  ASSUME IInv, HomePort, [Next]_vars
  PROVE  HomePort'
<1> USE DEF IInv, TypeOK, HomePort, Active, OneConnect
<1>1. ASSUME NEW c \in Call,
             ProbeAnswered(c) \/ ProbeFailed(c) \/ Discarded(c) \/ Dialled(c)
               \/ Authenticated(c) \/ LoginAgain(c) \/ Executed(c) \/ Spin(c)
               \/ LoginDialled(c) \/ Drain(c)
      PROVE  HomePort'
  <2>1. UNCHANGED <<kind, stage, home, todo, port, poolPort>>
    BY <1>1 DEF ProbeAnswered, ProbeFailed, Discarded, Dialled, Authenticated, LoginAgain,
       Executed, Spin, LoginDialled, Drain, connectVars, nodeVars, callVars
  <2>2. \A d \in Call : pc[d] # "idle" => pc'[d] # "idle"
    BY <1>1 DEF ProbeAnswered, ProbeFailed, Discarded, Dialled, Authenticated, LoginAgain,
       Executed, Spin, LoginDialled, Drain, GetConnection, callVars
  <2> QED
    BY <2>1, <2>2
<1>2. ASSUME NEW c \in Call,
             DialFailed(c) \/ AuthRefused(c) \/ AuthRaised(c) \/ InfoReplied(c)
               \/ InfoEmpty(c) \/ AdminReplied(c) \/ AdminRefused(c) \/ RequestBroken(c)
               \/ LoginNoPool(c) \/ LoginRefused(c) \/ LoginRaised(c)
      PROVE  HomePort'
  <2>1. /\ EndRequest(c, out'[c]) /\ pc[c] # "idle" /\ UNCHANGED <<port, poolPort>>
    BY <1>2 DEF DialFailed, AuthRefused, AuthRaised, InfoReplied,
       InfoEmpty, AdminReplied, AdminRefused, RequestBroken, LoginNoPool, LoginRefused,
       LoginRaised, At, EndRequest
  <2> QED
    BY <2>1 DEF EndRequest, connectVars
<1>3. ASSUME NEW c \in Call, LoginDialFailed(c) \/ LoggedIn(c)
      PROVE  HomePort'
  BY <1>3 DEF LoginDialFailed, LoggedIn, EndRequest, GetConnection, At, InConnectLogin,
     AfterSecondLogin, connectVars
<1>4. ASSUME NEW c \in Call, Reinitialize(c)
      PROVE  HomePort'
  BY <1>4 DEF Reinitialize, TryAddress, At
<1>5. ASSUME NEW c \in Call,
             NextAddress(c) \/ Unresolved(c) \/ GatherEnded(c) \/ AddressAnswered(c)
      PROVE  HomePort'
  BY <1>5 DEF NextAddress, Unresolved, TryAddress, GatherEnded, AddressAnswered,
     GetConnection, At, nodeVars
<1>11. ASSUME NEW c \in Call, NEW d \in Call, NEW r, BeginGathered(c, d, r)
       PROVE  HomePort'
  <2>1. UNCHANGED <<stage, home, todo, port, poolPort>> /\ Active(c)
        /\ c # d /\ pc'[c] = pc[c] /\ kind'[c] = kind[c]
    BY <1>11 DEF BeginGathered, GetConnection, At
  <2> QED
    BY <2>1
<1>6. ASSUME NEW c \in Call, Connected(c) \/ FakeNode(c) \/ RaiseRefusal(c)
      PROVE  HomePort'
  BY <1>6 DEF Connected, FakeNode, RaiseRefusal, EndConnect
<1>7. ASSUME NEW c \in Call, Start(c)
      PROVE  HomePort'
  BY <1>7 DEF Start, StartConnect, StartRequest, GetConnection, Connecting, At, connectVars
<1>8. CASE CloseNode
  BY <1>8 DEF CloseNode, connectVars, callVars
<1>9. CASE Environment
  BY <1>9 DEF Environment, ServerRestarts, SessionExpires, SessionRevoked, ConnectionDrops,
     Collect, callVars, connectVars, nodeVars
<1>10. CASE UNCHANGED vars
  BY <1>10 DEF vars, callVars, connectVars, nodeVars
<1> QED
  BY <1>1, <1>2, <1>3, <1>4, <1>5, <1>6, <1>7, <1>8, <1>9, <1>10, <1>11
  DEF Next, CallStep

(* Every step keeps the bound on the size of the pool.                     *)
LEMMA SizeStep ==
  ASSUME FiniteCalls, IInv, HomePort, SizeWithin, [Next]_vars
  PROVE  SizeWithin'
<1> USE DEF IInv, TypeOK
(* The pool and the ports stay, the calls go on.                           *)
<1>1. ASSUME NEW c \in Call,
             ProbeAnswered(c) \/ ProbeFailed(c) \/ Dialled(c) \/ Authenticated(c)
               \/ LoginAgain(c) \/ Executed(c) \/ Spin(c) \/ LoginDialled(c)
      PROVE  SizeWithin'
  <2>1. UNCHANGED <<kind, stage, todo, port, poolPort, pool, at>>
    BY <1>1 DEF ProbeAnswered, ProbeFailed, Dialled, Authenticated, LoginAgain, Executed,
       Spin, LoginDialled, connectVars, nodeVars, callVars
  <2>2. Late' \subseteq Late
    BY <1>1, <2>1 DEF ProbeAnswered, ProbeFailed, Dialled, Authenticated, LoginAgain,
       Executed, Spin, LoginDialled, At, Late, InConnectLogin, callVars
  <2> QED
    BY <2>1, <2>2, Shrinks DEF SamePorts
(* A request ends and its socket is not pooled.                            *)
<1>2. ASSUME NEW c \in Call,
             DialFailed(c) \/ AuthRefused(c) \/ AuthRaised(c) \/ AdminRefused(c)
               \/ RequestBroken(c) \/ LoginNoPool(c) \/ LoginRefused(c) \/ LoginRaised(c)
      PROVE  SizeWithin'
  <2>1. UNCHANGED <<kind, stage, todo, port, poolPort, pool>>
    BY <1>2 DEF DialFailed, AuthRefused, AuthRaised, AdminRefused, RequestBroken,
       LoginNoPool, LoginRefused, LoginRaised, EndRequest, connectVars
  <2>2. EndRequest(c, out'[c])
    BY <1>2 DEF DialFailed, AuthRefused, AuthRaised, AdminRefused, RequestBroken,
       LoginNoPool, LoginRefused, LoginRaised, EndRequest
  <2>3. Late' \subseteq Late
    BY <2>1, <2>2 DEF EndRequest, Late, InConnectLogin
  <2> QED
    BY <2>1, <2>3, Shrinks DEF SamePorts
(* A request ends and its socket may be pooled.                            *)
<1>3. ASSUME NEW c \in Call, InfoReplied(c) \/ InfoEmpty(c) \/ AdminReplied(c)
      PROVE  SizeWithin'
  <2>1. UNCHANGED <<kind, stage, todo, port, poolPort>> /\ EndRequest(c, out'[c])
    BY <1>3 DEF InfoReplied, InfoEmpty, AdminReplied, EndRequest, connectVars
  <2>2. Late' \subseteq Late /\ c \notin Late'
    BY <2>1 DEF EndRequest, Late, InConnectLogin
  <2>3. \/ pool' = pool
        \/ Cardinality(pool) < MaxPool /\ pool' = pool \cup {conn[c]}
    BY <1>3 DEF InfoReplied, InfoEmpty, AdminReplied, ReturnSocket
  <2> QED
    BY <2>1, <2>2, <2>3, Shrinks, Returns DEF SamePorts
<1>4. ASSUME NEW c \in Call, LoginDialFailed(c)
      PROVE  SizeWithin'
  <2>1. UNCHANGED <<kind, stage, todo, port, poolPort, pool>>
    BY <1>4 DEF LoginDialFailed, EndRequest, connectVars
  <2>2. Late' \subseteq Late
    BY <1>4, <2>1 DEF LoginDialFailed, EndRequest, Late, InConnectLogin, AfterSecondLogin
  <2> QED
    BY <2>1, <2>2, Shrinks DEF SamePorts
<1>5. ASSUME NEW c \in Call, LoggedIn(c), ~InConnectLogin(c)
      PROVE  SizeWithin'
  <2>1. UNCHANGED <<kind, stage, todo, port, poolPort, at>> /\ port = poolPort
        /\ pool' = pool \cup {lconn[c]} /\ pc' = [pc EXCEPT ![c] = "auth2"]
        /\ pc[c] = "lauth"
    BY <1>5 DEF LoggedIn, AfterSecondLogin, At
  <2>2. c \in Late /\ Late' \subseteq Late \ {c}
    BY <1>5, <2>1 DEF Late, InConnectLogin
  <2> QED
    BY <2>1, <2>2, LogsIn DEF SamePorts
<1>6. ASSUME NEW c \in Call, LoggedIn(c), InConnectLogin(c)
      PROVE  SizeWithin'
  <2>1. UNCHANGED <<kind, todo, port, poolPort>> /\ port = poolPort /\ stage' = "node"
        /\ GetConnection(c, port, pool \cup {lconn[c]}) /\ lconn[c] \in open
    BY <1>6 DEF LoggedIn, At
  <2>2. PICK s \in pool \cup {lconn[c]} :
          pool' \subseteq (pool \cup {lconn[c]}) \ {s} /\ pc' = [pc EXCEPT ![c] = "probe"]
    BY <2>1 DEF GetConnection, Remainder
  <2>3. at' = [at EXCEPT ![c] = poolPort]
    BY <2>1 DEF GetConnection
  <2>4. Late' \subseteq Late
    BY <1>6, <2>1, <2>2, <2>3 DEF Late, InConnectLogin, OneConnect, Active, LoggedIn, At
  <2> QED
    BY <2>1, <2>2, <2>4, Swaps DEF SamePorts
<1>7. ASSUME NEW c \in Call, Drain(c)
      PROVE  SizeWithin'
  <2>1. UNCHANGED <<kind, stage, todo, port, poolPort, at, pc>> /\ pool' \subseteq pool
    BY <1>7 DEF Drain, Remainder, callVars, connectVars
  <2>2. Late' \subseteq Late
    BY <2>1 DEF Late, InConnectLogin
  <2> QED
    BY <2>1, <2>2, Shrinks DEF SamePorts
<1>8. ASSUME NEW c \in Call, Reinitialize(c)
      PROVE  SizeWithin'
  BY <1>8, Clears DEF Reinitialize
(* A request looks for a connection, for the first time or again.          *)
<1>9. ASSUME NEW c \in Call, NEW k \in {"info", "admin"}, StartRequest(c, k)
      PROVE  SizeWithin'
  <2>1. UNCHANGED <<stage, todo, port, poolPort>> /\ GetConnection(c, port, PoolAt(port))
    BY <1>9 DEF StartRequest, connectVars
  <2>2. Late' \subseteq Late \cup {c}
    BY <1>9, <2>1 DEF StartRequest, GetConnection, Late, InConnectLogin
  <2> QED
    BY <2>1, <2>2, GetConnectionKeepsSize DEF SamePorts
<1>10. ASSUME NEW c \in Call, Discarded(c)
       PROVE  SizeWithin'
  <2>1. UNCHANGED <<kind, stage, todo, port, poolPort>> /\ GetConnection(c, at[c], PoolAt(at[c]))
        /\ pc[c] = "discard"
    BY <1>10 DEF Discarded, connectVars, At
  <2>2. Late' \subseteq Late \cup {c}
    BY <2>1 DEF GetConnection, Late, InConnectLogin
  <2>3. at[c] # poolPort => c \in Late
    BY <2>1 DEF Late, InConnectLogin, OneConnect, Active
  <2> QED
    BY <2>1, <2>2, <2>3, GetConnectionKeepsSize DEF SamePorts
<1>11. ASSUME NEW c \in Call, AddressAnswered(c)
       PROVE  SizeWithin'
  <2>1. UNCHANGED <<kind, todo, port, poolPort>> /\ GetConnection(c, port, PoolAt(port))
        /\ stage = "address" /\ stage' = "build"
    BY <1>11 DEF AddressAnswered
  <2>2. Late' \subseteq Late \cup {c}
    BY <2>1 DEF GetConnection, Late, InConnectLogin
  <2> QED
    BY <2>1, <2>2, GetConnectionKeepsSize DEF SamePorts
<1>12. ASSUME NEW c \in Call, StartConnect(c)
       PROVE  SizeWithin'
  <2>1. UNCHANGED <<todo, port, poolPort>> /\ stage' \in {"login", "node"}
        /\ kind' = [kind EXCEPT ![c] = "connect"]
    BY <1>12 DEF StartConnect
  <2>2. stage = "none"
    BY <1>12 DEF HomePort, StartConnect, Connecting, Active
  <2>3. CASE performLogin \/ expired
    <3>1. pool' = pool /\ at' = at /\ pc' = [pc EXCEPT ![c] = "ldial"] /\ stage' = "login"
      BY <1>12, <2>3 DEF StartConnect
    <3>2. Late' \subseteq Late
      BY <2>1, <2>2, <3>1 DEF Late, InConnectLogin
    <3> QED
      BY <2>1, <3>1, <3>2, Shrinks DEF SamePorts
  <2>4. CASE ~(performLogin \/ expired)
    <3>1. GetConnection(c, port, PoolAt(port)) /\ stage' = "node"
      BY <1>12, <2>4 DEF StartConnect
    <3>2. Late' \subseteq Late \cup {c}
      BY <2>1, <2>2, <3>1 DEF GetConnection, Late, InConnectLogin
    <3> QED
      BY <2>1, <3>1, <3>2, GetConnectionKeepsSize DEF SamePorts
  <2> QED
    BY <2>3, <2>4
(* The port may be the pool's again, or no longer.                         *)
<1>13. ASSUME NEW c \in Call, NextAddress(c) \/ (Unresolved(c) /\ todo # {})
       PROVE  SizeWithin'
  <2>1. PICK q \in todo : TryAddress(c, q) /\ todo' = todo \ {q}
    BY <1>13 DEF NextAddress, Unresolved
  <2>2. UNCHANGED <<stage, poolPort, pool>>
    BY <1>13 DEF NextAddress, Unresolved
  <2>3. stage = "address"
    BY <1>13 DEF NextAddress, Unresolved, OneConnect, At
  <2> QED
    BY <2>1, <2>2, <2>3, TriesAddress
<1>14. ASSUME NEW c \in Call, FakeNode(c)
       PROVE  SizeWithin'
  <2>1. port' = home /\ UNCHANGED <<kind, poolPort, pool, at>> /\ stage' = "none"
        /\ pc' = [pc EXCEPT ![c] = "idle"] /\ pc[c] = "resumed"
        /\ stage \in {"login", "node", "address"}
    BY <1>14 DEF FakeNode, ConnectFailed, EndConnect, At
  <2>2. CASE stage \in {"login", "node"}
    <3>1. port' = port
      BY <2>1, <2>2 DEF HomePort
    <3>2. Late' \subseteq Late
      BY <2>1 DEF Late, InConnectLogin, OneConnect, Active
    <3> QED
      BY <2>1, <3>1, <3>2, Shrinks DEF SamePorts
  <2>3. CASE stage = "address"
    <3>1. Cardinality(pool) \in Nat
      BY FS_CardinalityType DEF SizeWithin
    <3>2. Cardinality(pool) <= MaxPool + Cardinality(Call) - 1
      BY <2>3, <3>1, LateCount, ConstantsAssumption DEF SizeWithin
    <3>3. c \notin Late'
      BY <2>1 DEF Late
    <3>4. Cardinality(Late') <= Cardinality(Call) - 1
      BY <3>3, OneNotLate
    <3>5. port' = poolPort
      BY <2>1, <2>3 DEF HomePort
    <3> QED
      BY <2>1, <3>1, <3>2, <3>4, <3>5, LateCount, ConstantsAssumption DEF SizeWithin
  <2> QED
    BY <2>1, <2>2, <2>3
<1>15. ASSUME NEW c \in Call, Connected(c) \/ RaiseRefusal(c)
       PROVE  SizeWithin'
  <2>1. UNCHANGED <<kind, port, poolPort, pool, at>> /\ stage' = "none"
        /\ pc' = [pc EXCEPT ![c] = "idle"] /\ pc[c] = "resumed"
    BY <1>15 DEF Connected, RaiseRefusal, ConnectFailed, EndConnect, At
  <2>2. Late' \subseteq Late
    BY <2>1 DEF Late, InConnectLogin, OneConnect, Active
  <2> QED
    BY <2>1, <2>2, Shrinks DEF SamePorts
<1>16. CASE CloseNode
  BY <1>16, Clears DEF CloseNode
<1>17. CASE Environment \/ UNCHANGED vars
  <2>1. UNCHANGED <<kind, stage, todo, port, poolPort, at, pc, pool>>
    BY <1>17 DEF Environment, ServerRestarts, SessionExpires, SessionRevoked,
       ConnectionDrops, Collect, callVars, connectVars, nodeVars, vars
  <2>2. Late' \subseteq Late
    BY <2>1 DEF Late, InConnectLogin
  <2> QED
    BY <2>1, <2>2, Shrinks DEF SamePorts
(* The requests of a gather begin, and end.                                *)
<1>18. ASSUME NEW c \in Call, NEW d \in Call, NEW r, BeginGathered(c, d, r)
       PROVE  SizeWithin'
  <2>1. UNCHANGED <<stage, todo, port, poolPort>> /\ GetConnection(d, port, PoolAt(port))
    BY <1>18 DEF BeginGathered
  <2>2. Late' \subseteq Late \cup {d}
    BY <1>18, <2>1 DEF BeginGathered, GetConnection, Late, InConnectLogin
  <2> QED
    BY <2>1, <2>2, GetConnectionKeepsSize DEF SamePorts
<1>19. ASSUME NEW c \in Call, GatherEnded(c) \/ (Unresolved(c) /\ todo = {})
       PROVE  SizeWithin'
  <2>1. UNCHANGED <<kind, stage, todo, port, poolPort, at, pool>>
        /\ pc' = [pc EXCEPT ![c] = "resumed"]
    BY <1>19 DEF GatherEnded, Unresolved, nodeVars
  <2>2. Late' \subseteq Late
    BY <2>1 DEF Late, InConnectLogin
  <2> QED
    BY <2>1, <2>2, Shrinks DEF SamePorts
<1> QED
  BY <1>1, <1>2, <1>3, <1>4, <1>5, <1>6, <1>7, <1>8, <1>9, <1>10, <1>11, <1>12, <1>13,
     <1>14, <1>15, <1>16, <1>17, <1>18, <1>19
  DEF Next, CallStep, Start

(* So it holds of every behaviour.                                         *)
LEMMA SizeCorrect ==
  ASSUME FiniteCalls
  PROVE  Spec => [](HomePort /\ SizeWithin)
<1>1. Init => HomePort /\ SizeWithin
  BY InitHomePort, Clears, LateCount, FS_EmptySet, ConstantsAssumption
  DEF Init, SizeWithin
<1>2. IInv /\ HomePort /\ SizeWithin /\ [Next]_vars => (HomePort /\ SizeWithin)'
  BY HomePortStep, SizeStep
<1> QED
  BY <1>1, <1>2, SpecIInv, PTL DEF Spec

(* The pool never holds more than its maximum and two sockets for every    *)
(* call but one, for any finite number of calls, those that a connect      *)
(* gathers among them, any ports and any failures: _return_socket looks at *)
(* the size, and the logins of the other calls, which do not, come once    *)
(* before a connect that tries the pool's port again and once after it.    *)
THEOREM SpecPoolWithinMaxAndLogins ==
  ASSUME IsFiniteSet(Call), Call # {}
  PROVE  Spec => []PoolWithinMaxAndLogins
<1>1. FiniteCalls
  BY DEF FiniteCalls
<1>2. SizeWithin => PoolWithinMaxAndLogins
  <2> SUFFICES ASSUME SizeWithin
               PROVE  PoolWithinMaxAndLogins
    OBVIOUS
  <2>1. Cardinality(pool) \in Nat
    BY FS_CardinalityType DEF SizeWithin
  <2> QED
    BY <1>1, <2>1, LateCount, ConstantsAssumption DEF SizeWithin, PoolWithinMaxAndLogins
<1> QED
  BY <1>1, <1>2, SizeCorrect, PTL

-----------------------------------------------------------------------------
(* A Node whose server keeps connections and sessions and has one address. *)
(* The failures that abandon sockets, overfill the pool or report an       *)
(* admin request that was executed as an error are all excluded there,     *)
(* for any number of calls: only the first connect logs in, before anyone  *)
(* else has the Node, and its socket is the one it goes on with.           *)

(* What the theorems assume of the server and the network.                 *)
CalmServer == ~Drops /\ ~Sessions /\ Port = {SeedPort}

(* The server's end of an open socket is there.                            *)
AllUp == open \subseteq up /\ lost = {} /\ ~expired

(* Who has logged in has a session, if the server has security.            *)
SessionHeld ==
  /\ token # "revoked"
  /\ secure /\ ~performLogin => token = "valid"

(* Only the first connect logs in, and until then nothing else happens.    *)
FirstLogin ==
  /\ performLogin => /\ built = "no" /\ pool = {}
                     /\ \A c \in Call : pc[c] \in {"idle", "ldial", "lauth"}
  /\ \A c \in Call : pc[c] \in {"ldial", "lauth"} => performLogin /\ InConnectLogin(c)
  /\ \A c \in Call : pc[c] \notin {"auth2", "discard"}

(* Every request goes to the port of the pool.                             *)
OnePort ==
  /\ poolPort # NoPort \/ \A c \in Call : pc[c] = "idle"
  /\ stage # "address" /\ \A c \in Call : pc[c] # "gather"
  /\ \A c \in Call : pc[c] \in {"probe", "dial", "auth", "sent"} => at[c] = SeedPort

(* The pool keeps its maximum, and is finite.                              *)
PoolSmall == IsFiniteSet(pool) /\ PoolWithinMax

(* The inductive invariant.                                                *)
Calm == AllUp /\ SessionHeld /\ FirstLogin /\ OnePort /\ PoolSmall
        /\ AdminErrorMeansUnapplied
-----------------------------------------------------------------------------
(* It holds at first.                                                      *)
LEMMA InitCalm ==
  ASSUME CalmServer, Init
  PROVE  Calm
<1> USE ConstantsAssumption DEF Init
<1>1. AllUp /\ SessionHeld /\ FirstLogin /\ OnePort
  BY DEF AllUp, SessionHeld, FirstLogin, OnePort
<1>2. PoolSmall
  BY FS_EmptySet DEF PoolSmall, PoolWithinMax
<1>3. AdminErrorMeansUnapplied
  BY DEF AdminErrorMeansUnapplied
<1> QED
  BY <1>1, <1>2, <1>3 DEF Calm

(* None of the failures can happen.                                        *)
LEMMA NoFailures ==
  ASSUME CalmServer, IInv, Calm, NEW c \in Call
  PROVE  /\ ~ProbeFailed(c) /\ ~Discarded(c) /\ ~DialFailed(c)
         /\ ~LoginAgain(c) /\ ~AuthRefused(c) /\ ~AuthRaised(c)
         /\ ~RequestBroken(c) /\ ~Spin(c)
         /\ ~LoginDialFailed(c) /\ ~LoginNoPool(c) /\ ~LoginRefused(c) /\ ~LoginRaised(c)
         /\ ~NextAddress(c) /\ ~AddressAnswered(c) /\ ~GatherEnded(c) /\ ~Unresolved(c)
         /\ \A d, r : ~BeginGathered(c, d, r)
<1> USE DEF IInv, Calm, CalmServer
<1>1. pc[c] \in {"probe", "auth", "sent"} => conn[c] \in up
  BY DEF CallSockets, AllUp
<1>2. pc[c] = "lauth" => lconn[c] \in up
  BY DEF CallSockets, AllUp
<1>3. pc[c] = "auth" => AuthAnswer(c) \subseteq {"ok", "not enabled"} /\ AuthAnswer(c) # {}
                        /\ AuthAnswer(c) # {"broken"}
  <2> SUFFICES ASSUME pc[c] = "auth"
               PROVE  AuthAnswer(c) = {"ok"} \/ AuthAnswer(c) = {"not enabled"}
    OBVIOUS
  <2>1. ~performLogin
    BY DEF FirstLogin
  <2>2. secure => token = "valid"
    BY <2>1 DEF SessionHeld
  <2> QED
    BY <1>1, <2>2 DEF AuthAnswer
<1>4. pc[c] \notin {"auth2", "discard", "gather"} /\ stage # "address"
  BY DEF FirstLogin, OnePort
<1>5. pc[c] # "idle" => poolPort = port
  BY DEF OnePort, TypeOK
<1>6. ~ProbeFailed(c) /\ ~Discarded(c) /\ ~DialFailed(c) /\ ~RequestBroken(c)
  BY <1>1, <1>4 DEF ProbeFailed, Discarded, DialFailed, RequestBroken, At
<1>7. ~Spin(c)
  BY <1>1, <1>2, <1>4 DEF Spin
<1>8. ~LoginAgain(c) /\ ~AuthRefused(c) /\ ~AuthRaised(c)
  BY <1>3, <1>4 DEF LoginAgain, AuthRefused, AuthRaised, At
<1>9. ~LoginDialFailed(c) /\ ~LoginNoPool(c) /\ ~LoginRefused(c) /\ ~LoginRaised(c)
  BY <1>2, <1>5 DEF LoginDialFailed, LoginNoPool, LoginRefused, LoginRaised, At
<1>10. ~NextAddress(c) /\ ~AddressAnswered(c) /\ ~GatherEnded(c) /\ ~Unresolved(c)
       /\ \A d, r : ~BeginGathered(c, d, r)
  BY <1>4 DEF NextAddress, AddressAnswered, GatherEnded, Unresolved, BeginGathered, At
<1> QED
  BY <1>6, <1>7, <1>8, <1>9, <1>10

(* A socket taken from the pool leaves no more there.                      *)
LEMMA SmallerPool ==
  ASSUME PoolSmall, pool' \subseteq pool
  PROVE  PoolSmall'
<1>1. IsFiniteSet(pool') /\ Cardinality(pool') <= Cardinality(pool)
      /\ Cardinality(pool) \in Nat /\ Cardinality(pool') \in Nat
  BY FS_Subset, FS_CardinalityType DEF PoolSmall
<1> QED
  BY <1>1, ConstantsAssumption DEF PoolSmall, PoolWithinMax

(* A socket that _return_socket adds after it has looked.                  *)
LEMMA LargerPool ==
  ASSUME PoolSmall, NEW s, Cardinality(pool) < MaxPool, pool' = pool \cup {s}
  PROVE  PoolSmall'
<1>1. IsFiniteSet(pool') /\ Cardinality(pool) \in Nat
      /\ (Cardinality(pool') = Cardinality(pool) \/ Cardinality(pool') = Cardinality(pool) + 1)
  BY FS_AddElement, FS_CardinalityType DEF PoolSmall
<1> QED
  BY <1>1, ConstantsAssumption DEF PoolSmall, PoolWithinMax

(* What GetConnection does to a call that finds the pool's port.           *)
LEMMA GetConnectionCalm ==
  ASSUME TypeOK, PoolSmall, NEW c \in Call, GetConnection(c, SeedPort, PoolAt(SeedPort))
  PROVE  /\ pool' \subseteq pool
         /\ pc' = [pc EXCEPT ![c] = "probe"] \/ pc' = [pc EXCEPT ![c] = "dial"]
         /\ at' = [at EXCEPT ![c] = SeedPort]
         /\ applied' = [applied EXCEPT ![c] = FALSE]
  BY DEF GetConnection, PoolAt, Remainder

(* Every step keeps the invariant.                                         *)
LEMMA CalmStep ==
  ASSUME CalmServer, IInv, Calm, [Next]_vars
  PROVE  Calm'
<1> USE DEF IInv, TypeOK, Calm, CalmServer
(* The call goes on with its request.                                      *)
<1>1. ASSUME NEW c \in Call,
             ProbeAnswered(c) \/ Dialled(c) \/ Authenticated(c) \/ Executed(c)
               \/ LoginDialled(c)
      PROVE  Calm'
  <2> USE DEF ProbeAnswered, Dialled, Authenticated, Executed, LoginDialled, At
  <2>1. UNCHANGED <<port, poolPort, pool, alive, performLogin, token, expired, built>>
        /\ UNCHANGED <<secure, stage, kind, at, out, lost>>
    BY <1>1 DEF nodeVars, serverVars, connectVars
  <2>2. AllUp'
    BY <1>1, <2>1 DEF AllUp, serverVars
  <2>3. SessionHeld'
    BY <2>1 DEF SessionHeld
  <2>4. FirstLogin'
    BY <1>1, <2>1 DEF FirstLogin, InConnectLogin
  <2>5. OnePort'
    <3>1. poolPort # NoPort
      BY <1>1 DEF OnePort
    <3>2. \A d \in Call : pc'[d] \in {"probe", "dial", "auth", "sent"} =>
            pc[d] \in {"probe", "dial", "auth", "sent"}
      BY <1>1 DEF FirstLogin
    <3>3. \A d \in Call : pc'[d] # "gather"
      BY <1>1 DEF OnePort
    <3> QED
      BY <2>1, <3>1, <3>2, <3>3 DEF OnePort
  <2>6. PoolSmall'
    BY <2>1, SmallerPool
  <2>7. AdminErrorMeansUnapplied'
    BY <1>1, <2>1 DEF AdminErrorMeansUnapplied
  <2> QED
    BY <2>2, <2>3, <2>4, <2>5, <2>6, <2>7
(* The request ends.                                                       *)
<1>2. ASSUME NEW c \in Call,
             InfoReplied(c) \/ InfoEmpty(c) \/ AdminReplied(c) \/ AdminRefused(c)
      PROVE  Calm'
  <2> USE DEF InfoReplied, InfoEmpty, AdminReplied, AdminRefused, At
  <2>1. UNCHANGED <<port, poolPort, performLogin, token, expired, built, secure, lost>>
        /\ EndRequest(c, out'[c]) /\ pc[c] = "sent"
    BY <1>2 DEF EndRequest
  <2>2. UNCHANGED <<kind, stage>>
    BY <2>1 DEF EndRequest, connectVars
  <2>3. AllUp'
    BY <1>2, <2>1 DEF AllUp, ReturnSocket, CloseSocket
  <2>4. SessionHeld'
    BY <2>1 DEF SessionHeld
  <2>5. FirstLogin'
    <3>1. ~performLogin
      BY <2>1 DEF FirstLogin
    <3> QED
      BY <2>1, <2>2, <3>1 DEF FirstLogin, InConnectLogin, EndRequest
  <2>6. OnePort'
    BY <2>1, <2>2 DEF OnePort, EndRequest
  <2>7. PoolSmall'
    <3>1. pool' = pool \/ (Cardinality(pool) < MaxPool /\ pool' = pool \cup {conn[c]})
      BY <1>2 DEF ReturnSocket
    <3> QED
      BY <3>1, SmallerPool, LargerPool
  <2>8. AdminErrorMeansUnapplied'
    <3>1. kind[c] = "admin" /\ out'[c] # "ok" => ~applied[c]
      <4>1. poolPort = at[c]
        BY <2>1 DEF OnePort
      <4> QED
        BY <1>2, <4>1 DEF AdminOutcome, EndRequest
    <3> QED
      BY <2>1, <2>2, <3>1 DEF AdminErrorMeansUnapplied, EndRequest
  <2> QED
    BY <2>3, <2>4, <2>5, <2>6, <2>7, <2>8
(* The login of the first connect.                                         *)
<1>3. ASSUME NEW c \in Call, LoggedIn(c)
      PROVE  Calm'
  <2>1. /\ InConnectLogin(c) /\ pool = {} /\ pc[c] = "lauth" /\ performLogin
        /\ lconn[c] \in open
    BY <1>3 DEF LoggedIn, At, FirstLogin, CallSockets
  <2>2. \A d \in Call \ {c} : pc[d] = "idle"
    BY <2>1 DEF FirstLogin, OneConnect, Active, InConnectLogin
  <2>3. /\ pool' = {} /\ pc' = [pc EXCEPT ![c] = "probe"] /\ at' = [at EXCEPT ![c] = SeedPort]
        /\ applied' = [applied EXCEPT ![c] = FALSE]
    BY <1>3, <2>1 DEF LoggedIn, GetConnection, Remainder
  <2>4. /\ UNCHANGED <<port, poolPort, built, open, up, secure, kind, out, lost>>
        /\ stage' = "node" /\ ~expired' /\ ~performLogin'
        /\ token' = IF secure THEN "valid" ELSE "none"
    BY <1>3, <2>1 DEF LoggedIn
  <2>5. AllUp' /\ SessionHeld'
    BY <2>4 DEF AllUp, SessionHeld
  <2>6. FirstLogin' /\ OnePort'
    BY <2>1, <2>2, <2>3, <2>4 DEF FirstLogin, OnePort, InConnectLogin
  <2>7. PoolSmall'
    BY <2>1, <2>3, SmallerPool
  <2>8. AdminErrorMeansUnapplied'
    BY <2>1, <2>3, <2>4 DEF AdminErrorMeansUnapplied, InConnectLogin
  <2> QED
    BY <2>5, <2>6, <2>7, <2>8
<1>4. ASSUME NEW c \in Call, Drain(c)
      PROVE  Calm'
  <2>1. /\ UNCHANGED <<port, poolPort, performLogin, token, expired, built, secure, lost>>
        /\ UNCHANGED <<pc, kind, at, applied, out, stage>>
        /\ pool' \subseteq pool
    BY <1>4 DEF Drain, Remainder, callVars, connectVars
  <2>2. AllUp'
    BY <1>4, <2>1 DEF Drain, CloseSocket, AllUp
  <2>3. SessionHeld' /\ FirstLogin' /\ OnePort' /\ AdminErrorMeansUnapplied'
    BY <2>1 DEF SessionHeld, FirstLogin, InConnectLogin, OnePort, AdminErrorMeansUnapplied
  <2> QED
    BY <2>1, <2>2, <2>3, SmallerPool
(* The pool is empty of open sockets, so none is abandoned.                *)
<1>5. ASSUME NEW c \in Call, Reinitialize(c)
      PROVE  Calm'
  <2>1. /\ UNCHANGED <<performLogin, token, expired, built, open, up, secure, kind, out>>
        /\ poolPort' = port /\ port' = port /\ stage' = "build" /\ pool' = {}
        /\ pc' = [pc EXCEPT ![c] = "dial"] /\ at' = [at EXCEPT ![c] = SeedPort]
        /\ applied' = [applied EXCEPT ![c] = FALSE] /\ pc[c] = "resumed"
    BY <1>5 DEF Reinitialize, At, serverVars
  <2>2. lost' = {}
    BY <1>5, <2>1 DEF Reinitialize, Abandon, PoolDrained, PoolAt, AllUp, OnePort
  <2>3. AllUp' /\ SessionHeld'
    BY <2>1, <2>2 DEF AllUp, SessionHeld
  <2>4. FirstLogin' /\ OnePort'
    BY <2>1, ConstantsAssumption DEF FirstLogin, OnePort, InConnectLogin
  <2>5. PoolSmall'
    BY <2>1, SmallerPool
  <2>6. AdminErrorMeansUnapplied'
    BY <2>1 DEF AdminErrorMeansUnapplied
  <2> QED
    BY <2>3, <2>4, <2>5, <2>6
(* connect returns.                                                        *)
<1>6. ASSUME NEW c \in Call, Connected(c) \/ FakeNode(c) \/ RaiseRefusal(c)
      PROVE  Calm'
  <2> USE DEF Connected, FakeNode, RaiseRefusal, EndConnect, At
  <2>1. /\ UNCHANGED <<poolPort, pool, performLogin, token, expired, open, up, secure, kind>>
        /\ UNCHANGED <<at, applied, lost>>
        /\ stage' = "none" /\ pc' = [pc EXCEPT ![c] = "idle"] /\ pc[c] = "resumed"
        /\ \A d \in Call \ {c} : out'[d] = out[d]
    BY <1>6 DEF serverVars, ConnectFailed
  <2>2. kind[c] = "connect"
    BY <2>1 DEF OneConnect
  <2>3. AllUp' /\ SessionHeld' /\ OnePort' /\ AdminErrorMeansUnapplied'
    BY <2>1, <2>2 DEF AllUp, SessionHeld, OnePort, AdminErrorMeansUnapplied
  <2>4. FirstLogin'
    BY <2>1 DEF FirstLogin
  <2> QED
    BY <2>1, <2>3, <2>4, SmallerPool
<1>7. ASSUME NEW c \in Call, NEW k \in {"info", "admin"}, StartRequest(c, k)
      PROVE  Calm'
  <2>1. /\ UNCHANGED <<port, poolPort, performLogin, token, expired, built, open, up, secure>>
        /\ UNCHANGED <<stage, lost>>
        /\ kind' = [kind EXCEPT ![c] = k] /\ out' = [out EXCEPT ![c] = "none"]
        /\ pc[c] = "idle" /\ poolPort # NoPort /\ built = "yes"
        /\ GetConnection(c, SeedPort, PoolAt(SeedPort))
    BY <1>7 DEF StartRequest, At, serverVars, connectVars
  <2>2. ~performLogin
    BY <2>1 DEF FirstLogin
  <2>3. AllUp' /\ SessionHeld'
    BY <2>1 DEF AllUp, SessionHeld
  <2>4. FirstLogin' /\ OnePort' /\ AdminErrorMeansUnapplied'
    BY <2>1, <2>2, GetConnectionCalm
    DEF FirstLogin, InConnectLogin, OnePort, AdminErrorMeansUnapplied
  <2> QED
    BY <2>1, <2>3, <2>4, GetConnectionCalm, SmallerPool
<1>8. ASSUME NEW c \in Call, StartConnect(c)
      PROVE  Calm'
  <2>1. /\ UNCHANGED <<port, poolPort, performLogin, token, expired, built, open, up, secure>>
        /\ UNCHANGED lost
        /\ kind' = [kind EXCEPT ![c] = "connect"] /\ out' = [out EXCEPT ![c] = "none"]
        /\ pc[c] = "idle" /\ poolPort # NoPort /\ ~Connecting
    BY <1>8 DEF StartConnect, At, serverVars
  <2>2. \A d \in Call : pc[d] \notin {"ldial", "lauth"}
    BY <2>1 DEF FirstLogin, InConnectLogin, Connecting
  <2>3. AllUp' /\ SessionHeld'
    BY <2>1 DEF AllUp, SessionHeld
  <2>4. CASE performLogin
    <3>1. /\ pc' = [pc EXCEPT ![c] = "ldial"] /\ stage' = "login"
          /\ UNCHANGED <<pool, at, applied>>
      BY <1>8, <2>4 DEF StartConnect
    <3>2. FirstLogin' /\ OnePort' /\ AdminErrorMeansUnapplied'
      BY <2>1, <2>2, <2>4, <3>1
      DEF FirstLogin, InConnectLogin, OnePort, AdminErrorMeansUnapplied
    <3> QED
      BY <2>3, <3>1, <3>2, SmallerPool
  <2>5. CASE ~performLogin
    <3>1. GetConnection(c, SeedPort, PoolAt(SeedPort)) /\ stage' = "node"
      BY <1>8, <2>5 DEF StartConnect, AllUp
    <3>2. FirstLogin' /\ OnePort' /\ AdminErrorMeansUnapplied'
      BY <2>1, <2>2, <2>5, <3>1, GetConnectionCalm
      DEF FirstLogin, InConnectLogin, OnePort, AdminErrorMeansUnapplied
    <3> QED
      BY <2>3, <3>1, <3>2, GetConnectionCalm, SmallerPool
  <2> QED
    BY <2>4, <2>5
<1>9. CASE CloseNode
  <2>1. /\ UNCHANGED <<port, performLogin, token, expired, built, secure>>
        /\ UNCHANGED <<pc, kind, at, applied, out, stage>>
        /\ pool' = {} /\ \A c \in Call : pc[c] = "idle"
    BY <1>9 DEF CloseNode, callVars, connectVars
  <2>2. PoolAt(port) = pool
    BY <1>9 DEF CloseNode, PoolAt
  <2>3. AllUp'
    BY <1>9, <2>1, <2>2 DEF CloseNode, Abandon, AllUp
  <2>4. SessionHeld' /\ FirstLogin' /\ OnePort' /\ AdminErrorMeansUnapplied'
    BY <2>1 DEF SessionHeld, FirstLogin, InConnectLogin, OnePort, AdminErrorMeansUnapplied
  <2> QED
    BY <2>1, <2>3, <2>4, SmallerPool
<1>10. CASE Environment \/ UNCHANGED vars
  <2>1. UNCHANGED vars
    BY <1>10 DEF Environment, ServerRestarts, SessionExpires, SessionRevoked,
       ConnectionDrops, Collect, AllUp
  <2> QED
    BY <2>1, SmallerPool
    DEF vars, nodeVars, serverVars, connectVars, callVars, AllUp, SessionHeld, FirstLogin,
        InConnectLogin, OnePort, AdminErrorMeansUnapplied
<1> QED
  BY <1>1, <1>2, <1>3, <1>4, <1>5, <1>6, <1>7, <1>8, <1>9, <1>10, NoFailures
  DEF Next, CallStep, Start

(* It holds of every behaviour.                                            *)
LEMMA CalmCorrect ==
  ASSUME CalmServer
  PROVE  Spec => []Calm
<1>1. IInv /\ Calm /\ [Next]_vars => Calm'
  BY CalmStep
<1>2. Init => Calm
  BY InitCalm
<1> QED
  BY <1>1, <1>2, SpecIInv, PTL DEF Spec

(* With stable connections and sessions and one port no open socket is     *)
(* ever forgotten: all the leaks of _get_connection, login and connect     *)
(* need a failure or a move.                                               *)
THEOREM CalmNoSocketLost ==
  ASSUME ~Drops, ~Sessions, Port = {SeedPort}
  PROVE  Spec => []NoSocketLost
<1>1. CalmServer
  BY DEF CalmServer
<1>2. Calm => NoSocketLost
  BY DEF Calm, AllUp, NoSocketLost
<1> QED
  BY <1>1, <1>2, CalmCorrect, PTL

(* There the pool keeps its maximum too: only the first connect logs in,   *)
(* and it takes its socket at once.                                        *)
THEOREM CalmPoolWithinMax ==
  ASSUME ~Drops, ~Sessions, Port = {SeedPort}
  PROVE  Spec => []PoolWithinMax
<1>1. CalmServer
  BY DEF CalmServer
<1>2. Calm => PoolWithinMax
  BY DEF Calm, PoolSmall
<1> QED
  BY <1>1, <1>2, CalmCorrect, PTL

(* And there an admin request that reports an error has not been executed: *)
(* the KeyError of a pool for another port cannot happen.                  *)
THEOREM CalmAdminErrorMeansUnapplied ==
  ASSUME ~Drops, ~Sessions, Port = {SeedPort}
  PROVE  Spec => []AdminErrorMeansUnapplied
<1>1. CalmServer
  BY DEF CalmServer
<1>2. Calm => AdminErrorMeansUnapplied
  BY DEF Calm
<1> QED
  BY <1>1, <1>2, CalmCorrect, PTL
=============================================================================
