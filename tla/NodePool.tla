------------------------------ MODULE NodePool ------------------------------
(***************************************************************************)
(* The connections of one Node object (lib/live_cluster/client/node.py and *)
(* assocket.py): the socket pool, the log-in session, and the coroutines   *)
(* that use them at the same time.                                         *)
(*                                                                         *)
(* A call is a coroutine of one of three kinds: an info request            *)
(* (_info_cinfo), an admin request (_admin_cadmin) or a (re)connection     *)
(* (connect, refresh_connection).  The requests that a connect gathers are *)
(* calls of their own.  asyncio switches between coroutines only where one *)
(* awaits, so an action runs from one await to the next; pc says what a    *)
(* call awaits.                                                            *)
(*                                                                         *)
(* The node is used with a user name: with none, login and authenticate    *)
(* return at once and every socket counts as ready to use.                 *)
(***************************************************************************)
EXTENDS Naturals, FiniteSets

CONSTANTS Call,       \* calls that can run at the same time
          Sock,       \* ASSocket objects
          Port,       \* ports the node can be reached at
          SeedPort,   \* the port the Node object was created with
          MaxPool,    \* socket_pool_max_size
          Peers,      \* what info_peers_list asks: the peers, perhaps the alumni
          Drops,      \* whether connections may fail or be dropped
          Sessions,   \* whether a session may expire or be revoked
          NoSock, NoPort

ASSUME ConstantsAssumption ==
  /\ SeedPort \in Port
  /\ MaxPool \in Nat \ {0}
  /\ {"node", "none"} \cap Peers = {}
  /\ Drops \in BOOLEAN
  /\ Sessions \in BOOLEAN
  /\ NoSock \notin Sock
  /\ NoPort \notin Port

VARIABLES
  port,         \* self.port
  poolPort,     \* the one key of self.socket_pool, NoPort when that is None
  pool,         \* self.socket_pool[poolPort]
  alive,        \* self.alive
  performLogin, \* self.perform_login
  token,        \* self.session_token, as the server judges it
  expired,      \* self.session_expiration is set and has passed
  built,        \* how far Node.__init__ is: "no", "yes", or "failed"
  open,         \* sockets that are connected and not closed by this side
  up,           \* those whose server end is still there
  authed,       \* those the server has authenticated
  secure,       \* whether security is enabled at the server
  spinning,     \* a read loops in _receive_data at the end of its stream
  pc,           \* what the call awaits
  kind,         \* what the call is
  conn,         \* the call's socket
  lconn,        \* the socket of a login the call makes
  at,           \* the port the call's request goes to
  stage,        \* where the connect that runs is
  home,         \* the port it was called with
  todo,         \* the ports of service addresses it has not tried
  wanted,       \* the requests to an address that have not begun
  part,         \* which of them a call makes
  applied,      \* the server executed the call's request
  out,          \* how the call's last request ended
  lost          \* open sockets no pool and no call refers to

nodeVars    == <<port, poolPort, pool, alive, performLogin, token, expired, built>>
serverVars  == <<open, up, authed, secure>>
connectVars == <<stage, home, todo, wanted, part>>
callVars    == <<pc, kind, conn, lconn, at, applied, out>>
vars == <<nodeVars, serverVars, spinning, connectVars, callVars, lost>>

(* What a call awaits: nothing ("idle"); the wait_closed of a socket that  *)
(* failed its probe ("discard"); the answer of is_connected ("probe"); the *)
(* connection and the authentication of a new socket ("dial", "auth"); a   *)
(* login's connection and answer ("ldial", "lauth"); the authentication    *)
(* after a second login ("auth2"); the reply ("sent"); the requests to a   *)
(* service address ("gather").  A connect whose request has ended goes on  *)
(* from "resumed".                                                         *)
PC == {"idle", "discard", "probe", "dial", "auth", "ldial", "lauth", "auth2",
       "sent", "gather", "resumed"}

(* A connect logs in, asks for the node's id and service addresses, tries  *)
(* the addresses, and asks for the build.  At an address it asks for the   *)
(* id (info_node) and for the peers (info_peers_list) at the same time.    *)
Stage == {"none", "login", "node", "address", "build"}
Asked == {"node"} \cup Peers

TypeOK ==
  /\ port \in Port
  /\ poolPort \in Port \cup {NoPort}
  /\ pool \subseteq Sock
  /\ alive \in BOOLEAN
  /\ performLogin \in BOOLEAN
  /\ token \in {"none", "valid", "revoked"}
  /\ expired \in BOOLEAN
  /\ built \in {"no", "yes", "failed"}
  /\ open \subseteq Sock
  /\ up \subseteq open
  /\ authed \subseteq open
  /\ secure \in BOOLEAN
  /\ spinning \in BOOLEAN
  /\ pc \in [Call -> PC]
  /\ kind \in [Call -> {"info", "admin", "connect"}]
  /\ stage \in Stage
  /\ conn \in [Call -> Sock \cup {NoSock}]
  /\ lconn \in [Call -> Sock \cup {NoSock}]
  /\ at \in [Call -> Port \cup {NoPort}]
  /\ home \in Port \cup {NoPort}
  /\ todo \subseteq Port
  /\ wanted \subseteq Asked
  /\ part \in [Call -> Asked \cup {"none"}]
  /\ applied \in [Call -> BOOLEAN]
  /\ out \in [Call -> {"none", "ok", "error", "refused"}]
  /\ lost \subseteq Sock

Init ==
  /\ port = SeedPort
  /\ poolPort = SeedPort
  /\ pool = {}
  /\ alive = FALSE
  /\ performLogin = TRUE
  /\ token = "none"
  /\ expired = FALSE
  /\ built = "no"
  /\ open = {} /\ up = {} /\ authed = {}
  /\ secure \in BOOLEAN
  /\ spinning = FALSE
  /\ pc = [c \in Call |-> "idle"]
  /\ kind = [c \in Call |-> "info"]
  /\ stage = "none"
  /\ conn = [c \in Call |-> NoSock]
  /\ lconn = [c \in Call |-> NoSock]
  /\ at = [c \in Call |-> NoPort]
  /\ home = NoPort
  /\ todo = {} /\ wanted = {}
  /\ part = [c \in Call |-> "none"]
  /\ applied = [c \in Call |-> FALSE]
  /\ out = [c \in Call |-> "none"]
  /\ lost = {}

-----------------------------------------------------------------------------
(* Helpers                                                                 *)

Held == {conn[c] : c \in Call} \cup {lconn[c] : c \in Call}

(* A new ASSocket: one that nothing refers to.                             *)
Fresh == Sock \ (open \cup pool \cup Held)

(* The pool a request to port p finds: a KeyError reads as an empty pool.  *)
PoolAt(p) == IF poolPort = p THEN pool ELSE {}

At(c, w) == ~spinning /\ pc[c] = w

(* Mutant: close() forgets what the server made of the socket.             *)
CloseSocketKeepsAuth(s) ==
  /\ open' = open \ {s}
  /\ up' = up \ {s}
  /\ UNCHANGED authed

(* ASSocket.close                                                          *)
CloseSocket(s) ==
  /\ open' = open \ {s}
  /\ up' = up \ {s}
  /\ authed' = authed \ {s}

(* Mutant: the socket is used but not taken out.                           *)
RemainderPeeked(available, s, dead) == available \ dead

(* What pop leaves when it yields the closed sockets dead and then s.      *)
Remainder(available, s, dead) == available \ ({s} \cup dead)

(* _get_connection up to its first await, for a request of call c to port  *)
(* p.  Sockets come out of the pool in any order; those this side closed   *)
(* are dropped on the way; without one that is open a new socket dials.    *)
GetConnection(c, p, available) ==
  /\ \/ \E s \in available \cap open :
          \E dead \in SUBSET (available \ open) :
            /\ pool' = (pool \ available) \cup Remainder(available, s, dead)
            /\ conn' = [conn EXCEPT ![c] = s]
            /\ pc' = [pc EXCEPT ![c] = "probe"]
     \/ /\ available \cap open = {}
        /\ pool' = pool \ available
        /\ \E s \in Fresh : conn' = [conn EXCEPT ![c] = s]
        /\ pc' = [pc EXCEPT ![c] = "dial"]
  /\ at' = [at EXCEPT ![c] = p]
  /\ applied' = [applied EXCEPT ![c] = FALSE]

InConnectLogin(c) == kind[c] = "connect" /\ stage = "login"

(* The request of call c ends.  A failure of an info or admin request, one *)
(* of connect's included, passes async_return_exceptions, which clears     *)
(* alive; login does not.                                                  *)
EndRequest(c, how) ==
  /\ pc' = [pc EXCEPT ![c] = IF kind[c] = "connect" THEN "resumed" ELSE "idle"]
  /\ out' = [out EXCEPT ![c] = how]
  /\ conn' = [conn EXCEPT ![c] = NoSock]
  /\ lconn' = [lconn EXCEPT ![c] = NoSock]
  /\ alive' = (alive /\ (how = "ok" \/ InConnectLogin(c)))
  /\ at' = [at EXCEPT ![c] = NoPort]
  /\ applied' = [applied EXCEPT ![c] = @ /\ kind[c] = "admin"]
  /\ UNCHANGED <<kind, connectVars>>

(* connect returns.                                                        *)
EndConnect(c) ==
  /\ pc' = [pc EXCEPT ![c] = "idle"]
  /\ stage' = "none"
  /\ home' = NoPort
  /\ todo' = {}
  /\ UNCHANGED <<wanted, part>>

(* The call ends and the sockets in ss stay open with nobody to close them.*)
Abandon(ss) == lost' = lost \cup (ss \cap open)

-----------------------------------------------------------------------------
(* Info and admin requests                                                 *)

StartRequest(c, k) ==
  /\ At(c, "idle") /\ part[c] = "none" /\ built = "yes" /\ poolPort # NoPort
  /\ k \in {"info", "admin"}
  /\ kind' = [kind EXCEPT ![c] = k]
  /\ out' = [out EXCEPT ![c] = "none"]
  /\ GetConnection(c, port, PoolAt(port))
  /\ UNCHANGED <<port, poolPort, alive, performLogin, token, expired, built,
                 serverVars, spinning, lconn, connectVars, lost>>

ProbeAnswered(c) ==
  /\ At(c, "probe") /\ conn[c] \in up
  /\ pc' = [pc EXCEPT ![c] = "sent"]
  /\ UNCHANGED <<nodeVars, serverVars, spinning, kind, conn, lconn, at,
                 connectVars, applied, out, lost>>

ProbeFailed(c) ==
  /\ At(c, "probe") /\ conn[c] \notin up
  /\ CloseSocket(conn[c])
  /\ conn' = [conn EXCEPT ![c] = NoSock]
  /\ pc' = [pc EXCEPT ![c] = "discard"]
  /\ UNCHANGED <<nodeVars, secure, spinning, kind, lconn, at, connectVars,
                 applied, out, lost>>

Discarded(c) ==
  /\ At(c, "discard")
  /\ GetConnection(c, at[c], PoolAt(at[c]))
  /\ UNCHANGED <<port, poolPort, alive, performLogin, token, expired, built,
                 serverVars, spinning, kind, lconn, connectVars, out, lost>>

Dialled(c) ==
  /\ At(c, "dial")
  /\ open' = open \cup {conn[c]}
  /\ up' = up \cup {conn[c]}
  /\ pc' = [pc EXCEPT ![c] = "auth"]
  /\ UNCHANGED <<nodeVars, authed, secure, spinning, kind, conn, lconn, at,
                 connectVars, applied, out, lost>>

DialFailed(c) ==
  /\ At(c, "dial") /\ Drops
  /\ EndRequest(c, "error")
  /\ UNCHANGED <<port, poolPort, pool, performLogin, token, expired, built,
                 serverVars, spinning, lost>>

(* The server's answer to authenticate, if its end is still there: a       *)
(* server without security says so; one with security accepts a live token *)
(* or, without any token, may accept the password.                         *)
AuthAnswer(c) ==
  IF conn[c] \notin up THEN {"broken"}
  ELSE IF ~secure THEN {"not enabled"}
  ELSE IF token = "valid" THEN {"ok"}
  ELSE IF token = "none" THEN {"ok", "bad credential"}
  ELSE {"bad credential", "other"}

(* The socket may carry the request: authenticated, or a server without    *)
(* security ("A user/pass was provided and security is disabled").         *)
Authenticated(c) ==
  /\ At(c, "auth") \/ At(c, "auth2")
  /\ \/ /\ "ok" \in AuthAnswer(c)
        /\ authed' = authed \cup {conn[c]}
     \/ /\ "not enabled" \in AuthAnswer(c) /\ pc[c] = "auth"
        /\ UNCHANGED authed
  /\ pc' = [pc EXCEPT ![c] = "sent"]
  /\ UNCHANGED <<nodeVars, open, up, secure, spinning, kind, conn, lconn, at,
                 connectVars, applied, out, lost>>

(* NO_CREDENTIAL_OR_BAD_CREDENTIAL: perform_login is set and login called. *)
LoginAgain(c) ==
  /\ At(c, "auth") /\ "bad credential" \in AuthAnswer(c)
  /\ performLogin' = TRUE
  /\ \E s \in Fresh : lconn' = [lconn EXCEPT ![c] = s]
  /\ pc' = [pc EXCEPT ![c] = "ldial"]
  /\ UNCHANGED <<port, poolPort, pool, alive, token, expired, built,
                 serverVars, spinning, kind, conn, at, connectVars, applied,
                 out, lost>>

(* Any other refusal closes the socket.                                    *)
AuthRefused(c) ==
  /\ At(c, "auth") /\ "other" \in AuthAnswer(c)
  /\ CloseSocket(conn[c])
  /\ EndRequest(c, "refused")
  /\ UNCHANGED <<port, poolPort, pool, performLogin, token, expired, built,
                 secure, spinning, lost>>

(* A refusal inside the handler of the first one, and any exception that   *)
(* is not an ASProtocolError, leave _get_connection past its close().      *)
AuthRaised(c) ==
  /\ \/ At(c, "auth") /\ AuthAnswer(c) = {"broken"}
     \/ At(c, "auth2") /\ AuthAnswer(c) # {"ok"}
  /\ EndRequest(c, IF AuthAnswer(c) = {"broken"} THEN "error" ELSE "refused")
  /\ Abandon({conn[c]})
  /\ UNCHANGED <<port, poolPort, pool, performLogin, token, expired, built,
                 serverVars, spinning>>

Executed(c) ==
  /\ At(c, "sent") /\ conn[c] \in up /\ ~applied[c]
  /\ applied' = [applied EXCEPT ![c] = TRUE]
  /\ UNCHANGED <<nodeVars, serverVars, spinning, pc, kind, conn, lconn, at,
                 connectVars, out, lost>>

(* Mutants of ReturnSocket: a full pool leaves the socket open, a pool     *)
(* that has no entry does, one more socket than the maximum is accepted,   *)
(* every socket is, the call waits for room.                               *)
ReturnSocketFullLeaks(c) ==
  /\ pool' = IF poolPort = at[c] /\ Cardinality(pool) < MaxPool
             THEN pool \cup {conn[c]} ELSE pool
  /\ UNCHANGED <<open, up, authed>>

ReturnSocketKeyErrorLeaks(c) ==
  IF poolPort = at[c] /\ Cardinality(pool) >= MaxPool
  THEN CloseSocket(conn[c]) /\ UNCHANGED pool
  ELSE /\ pool' = IF poolPort = at[c] THEN pool \cup {conn[c]} ELSE pool
       /\ UNCHANGED <<open, up, authed>>

ReturnSocketOffByOne(c) ==
  IF poolPort = at[c] /\ Cardinality(pool) <= MaxPool
  THEN pool' = pool \cup {conn[c]} /\ UNCHANGED <<open, up, authed>>
  ELSE CloseSocket(conn[c]) /\ UNCHANGED pool

ReturnSocketUnbounded(c) ==
  IF poolPort = at[c]
  THEN pool' = pool \cup {conn[c]} /\ UNCHANGED <<open, up, authed>>
  ELSE CloseSocket(conn[c]) /\ UNCHANGED pool

ReturnSocketWaits(c) ==
  /\ poolPort = at[c] /\ Cardinality(pool) < MaxPool
  /\ pool' = pool \cup {conn[c]}
  /\ UNCHANGED <<open, up, authed>>

(* "Either restore the socket in the pool or close it if it is full."      *)
ReturnSocket(c) ==
  IF poolPort = at[c] /\ Cardinality(pool) < MaxPool
  THEN /\ pool' = pool \cup {conn[c]}
       /\ UNCHANGED <<open, up, authed>>
  ELSE /\ CloseSocket(conn[c])
       /\ UNCHANGED pool

(* _info_cinfo has the reply: a KeyError on socket_pool closes the socket  *)
(* and is swallowed.                                                       *)
InfoReplied(c) ==
  /\ At(c, "sent") /\ kind[c] # "admin" /\ conn[c] \in up /\ applied[c]
  /\ ReturnSocket(c)
  /\ EndRequest(c, "ok")
  /\ UNCHANGED <<port, poolPort, performLogin, token, expired, built, secure,
                 spinning, lost>>

(* An empty reply (-1): the socket is pooled, then the error path closes   *)
(* it, so that a closed socket stays in the pool.                          *)
InfoEmpty(c) ==
  /\ At(c, "sent") /\ kind[c] # "admin" /\ conn[c] \in up /\ applied[c]
  /\ pool' = IF poolPort = at[c] /\ Cardinality(pool) < MaxPool
             THEN pool \cup {conn[c]} ELSE pool
  /\ CloseSocket(conn[c])
  /\ EndRequest(c, "error")
  /\ UNCHANGED <<port, poolPort, performLogin, token, expired, built, secure,
                 spinning, lost>>

(* Mutant: a full pool counts as a failure.                                *)
AdminOutcomeFullFails(c) ==
  IF poolPort = at[c] /\ Cardinality(pool) < MaxPool THEN "ok" ELSE "error"

(* Here a KeyError on socket_pool fails the whole call.                    *)
AdminOutcome(c) == IF poolPort = at[c] THEN "ok" ELSE "error"

(* _admin_cadmin has the reply.                                            *)
AdminReplied(c) ==
  /\ At(c, "sent") /\ kind[c] = "admin" /\ conn[c] \in up /\ applied[c]
  /\ ReturnSocket(c)
  /\ EndRequest(c, AdminOutcome(c))
  /\ UNCHANGED <<port, poolPort, performLogin, token, expired, built, secure,
                 spinning, lost>>

(* The server refuses the admin request: nothing is applied.               *)
AdminRefused(c) ==
  /\ At(c, "sent") /\ kind[c] = "admin" /\ conn[c] \in up /\ ~applied[c]
  /\ CloseSocket(conn[c])
  /\ EndRequest(c, "refused")
  /\ UNCHANGED <<port, poolPort, pool, performLogin, token, expired, built,
                 secure, spinning, lost>>

RequestBroken(c) ==
  /\ At(c, "sent") /\ conn[c] \notin up
  /\ CloseSocket(conn[c])
  /\ EndRequest(c, "error")
  /\ UNCHANGED <<port, poolPort, pool, performLogin, token, expired, built,
                 secure, spinning, lost>>

(* _receive_data at the end of the stream: read returns b"" at once, pos   *)
(* never reaches sz, and the loop never gives the event loop back.         *)
Spin(c) ==
  /\ ~spinning
  /\ \/ pc[c] \in {"probe", "auth", "auth2", "sent"} /\ conn[c] \notin up
     \/ pc[c] = "lauth" /\ lconn[c] \notin up
  /\ spinning' = TRUE
  /\ UNCHANGED <<nodeVars, serverVars, callVars, connectVars, lost>>

-----------------------------------------------------------------------------
(* login(): called by connect, and by _get_connection after a refusal      *)

LoginDialled(c) ==
  /\ At(c, "ldial")
  /\ open' = open \cup {lconn[c]}
  /\ up' = up \cup {lconn[c]}
  /\ pc' = [pc EXCEPT ![c] = "lauth"]
  /\ UNCHANGED <<nodeVars, authed, secure, spinning, kind, conn, lconn, at,
                 connectVars, applied, out, lost>>

(* Mutant: the login is taken for the socket's authentication.             *)
AfterSecondLoginSent == "sent"

(* After its login _get_connection authenticates its own socket again.     *)
AfterSecondLogin == "auth2"

(* login returns False: connect raises IOError, _get_connection does not   *)
(* look and authenticates again with the token it has.                     *)
LoginDialFailed(c) ==
  /\ At(c, "ldial") /\ Drops
  /\ IF InConnectLogin(c)
     THEN EndRequest(c, "error")
     ELSE /\ pc' = [pc EXCEPT ![c] = AfterSecondLogin]
          /\ lconn' = [lconn EXCEPT ![c] = NoSock]
          /\ UNCHANGED <<alive, kind, conn, at, connectVars, applied, out>>
  /\ UNCHANGED <<port, poolPort, pool, performLogin, token, expired, built,
                 serverVars, spinning, lost>>

(* The server gave a session, or has no security.  The socket goes into    *)
(* the pool of self.port whatever that holds, and is authenticated.        *)
LoggedIn(c) ==
  /\ At(c, "lauth") /\ lconn[c] \in up /\ poolPort = port
  /\ authed' = IF secure THEN authed \cup {lconn[c]} ELSE authed
  /\ token' = IF secure THEN "valid" ELSE "none"
  /\ expired' = FALSE
  /\ performLogin' = FALSE
  /\ lconn' = [lconn EXCEPT ![c] = NoSock]
  /\ IF InConnectLogin(c)
     THEN /\ GetConnection(c, port, pool \cup {lconn[c]})
          /\ stage' = "node"
     ELSE /\ pool' = pool \cup {lconn[c]}
          /\ pc' = [pc EXCEPT ![c] = AfterSecondLogin]
          /\ UNCHANGED <<conn, at, applied, stage>>
  /\ UNCHANGED <<port, poolPort, alive, built, open, up, secure, spinning,
                 kind, home, todo, wanted, part, out, lost>>

(* The pool has no entry for self.port: a KeyError, before the session is  *)
(* kept and with both sockets open.                                        *)
LoginNoPool(c) ==
  /\ At(c, "lauth") /\ lconn[c] \in up /\ poolPort # port
  /\ EndRequest(c, "error")
  /\ Abandon({conn[c], lconn[c]})
  /\ UNCHANGED <<port, poolPort, pool, performLogin, token, expired, built,
                 serverVars, spinning>>

(* An ASProtocolError: login closes its socket; the one that was to be     *)
(* authenticated again is not closed.                                      *)
LoginRefused(c) ==
  /\ At(c, "lauth") /\ lconn[c] \in up /\ secure /\ Sessions
  /\ CloseSocket(lconn[c])
  /\ EndRequest(c, "refused")
  /\ Abandon({conn[c]})
  /\ UNCHANGED <<port, poolPort, pool, performLogin, token, expired, built,
                 secure, spinning>>

(* Any other exception passes login without closing its socket.            *)
LoginRaised(c) ==
  /\ At(c, "lauth") /\ lconn[c] \notin up
  /\ EndRequest(c, "error")
  /\ Abandon({conn[c], lconn[c]})
  /\ UNCHANGED <<port, poolPort, pool, performLogin, token, expired, built,
                 serverVars, spinning>>

-----------------------------------------------------------------------------
(* connect() and refresh_connection()                                      *)

Connecting == \E c \in Call : kind[c] = "connect" /\ pc[c] # "idle"

(* The crawl's lock lets one refresh run at a time; a new Node object      *)
(* connects once before anyone else has it.                                *)
StartConnect(c) ==
  /\ At(c, "idle") /\ part[c] = "none" /\ built # "failed" /\ poolPort # NoPort
  /\ ~Connecting
  /\ kind' = [kind EXCEPT ![c] = "connect"]
  /\ home' = port
  /\ out' = [out EXCEPT ![c] = "none"]
  /\ IF performLogin \/ expired
     THEN /\ \E s \in Fresh : lconn' = [lconn EXCEPT ![c] = s]
          /\ pc' = [pc EXCEPT ![c] = "ldial"]
          /\ stage' = "login"
          /\ UNCHANGED <<pool, conn, at, applied>>
     ELSE /\ GetConnection(c, port, PoolAt(port))
          /\ stage' = "node"
          /\ UNCHANGED lconn
  /\ UNCHANGED <<port, poolPort, alive, performLogin, token, expired, built,
                 serverVars, spinning, todo, wanted, part, lost>>

(* close(): one socket of the pool after the other, awaiting each.         *)
Drain(c) ==
  /\ At(c, "resumed") /\ stage = "node" /\ out[c] = "ok"
  /\ \E s \in PoolAt(port) \cap open :
       \E dead \in SUBSET (PoolAt(port) \ open) :
         /\ pool' = Remainder(pool, s, dead)
         /\ CloseSocket(s)
  /\ UNCHANGED <<port, poolPort, alive, performLogin, token, expired, built,
                 secure, spinning, callVars, connectVars, lost>>

(* Mutants: close() pops one socket only, or never pops a closed one.      *)
PoolDrainedOnce == TRUE
PoolDrainedOfAll == PoolAt(port) = {}

(* close() ends when pop finds nothing.                                    *)
PoolDrained == PoolAt(port) \cap open = {}

(* A service address that is not the first and current one is asked for    *)
(* the node's id and peers.                                                *)
TryAddress(c, q) ==
  /\ port' = q
  /\ pc' = [pc EXCEPT ![c] = "gather"]
  /\ wanted' = Asked
  /\ part' = [d \in Call |-> "none"]

(* The rest of connect after close(): a pool for the port used so far,     *)
(* then the first service address.  The address in use needs no further    *)
(* check.                                                                  *)
Reinitialize(c) ==
  /\ At(c, "resumed") /\ stage = "node" /\ out[c] = "ok"
  /\ PoolDrained
  /\ poolPort' = port
  /\ pool' = {}
  /\ Abandon(pool)
  /\ \/ /\ stage' = "build"
        /\ \E s \in Fresh : conn' = [conn EXCEPT ![c] = s]
        /\ pc' = [pc EXCEPT ![c] = "dial"]
        /\ at' = [at EXCEPT ![c] = port]
        /\ applied' = [applied EXCEPT ![c] = FALSE]
        /\ UNCHANGED <<port, todo, wanted, part>>
     \/ /\ stage' = "address"
        /\ \E q \in Port \ {port} :
             /\ TryAddress(c, q)
             /\ \E rest \in SUBSET (Port \ {q}) : port \in rest /\ todo' = rest
        /\ UNCHANGED <<conn, at, applied>>
  /\ UNCHANGED <<alive, performLogin, token, expired, built, serverVars,
                 spinning, kind, lconn, home, out>>

(* One of the gathered requests begins.                                    *)
BeginGathered(c, d, r) ==
  /\ At(c, "gather") /\ r \in wanted /\ pc[d] = "idle" /\ part[d] = "none"
  /\ wanted' = wanted \ {r}
  /\ part' = [part EXCEPT ![d] = r]
  /\ kind' = [kind EXCEPT ![d] = "info"]
  /\ out' = [out EXCEPT ![d] = "none"]
  /\ GetConnection(d, port, PoolAt(port))
  /\ UNCHANGED <<port, poolPort, alive, performLogin, token, expired, built,
                 serverVars, spinning, lconn, stage, home, todo, lost>>

(* All of them have ended: the node's id is an answer or an exception.     *)
GatherEnded(c) ==
  /\ At(c, "gather") /\ wanted = {}
  /\ \A d \in Call : part[d] # "none" => pc[d] = "idle"
  /\ \E d \in Call : part[d] = "node" /\ out' = [out EXCEPT ![c] = out[d]]
  /\ pc' = [pc EXCEPT ![c] = "resumed"]
  /\ part' = [d \in Call |-> "none"]
  /\ UNCHANGED <<nodeVars, serverVars, spinning, stage, home, todo, wanted,
                 kind, conn, lconn, at, applied, lost>>

(* _update_IP can not resolve the address: gather raises, its requests go  *)
(* on by themselves, the node's id stays what it was.                      *)
Unresolved(c) ==
  /\ At(c, "gather") /\ wanted = {}
  /\ \/ \E q \in todo : TryAddress(c, q) /\ todo' = todo \ {q}
     \/ /\ todo = {}
        /\ pc' = [pc EXCEPT ![c] = "resumed"]
        /\ part' = [d \in Call |-> "none"]
        /\ UNCHANGED <<port, todo, wanted>>
  /\ UNCHANGED <<poolPort, pool, alive, performLogin, token, expired, built,
                 serverVars, spinning, stage, home, kind, conn, lconn, at,
                 applied, out, lost>>

NextAddress(c) ==
  /\ At(c, "resumed") /\ stage = "address" /\ out[c] # "ok"
  /\ \E q \in todo : TryAddress(c, q) /\ todo' = todo \ {q}
  /\ UNCHANGED <<poolPort, pool, alive, performLogin, token, expired, built,
                 serverVars, spinning, stage, home, kind, conn, lconn, at,
                 applied, out, lost>>

AddressAnswered(c) ==
  /\ At(c, "resumed") /\ stage = "address" /\ out[c] = "ok"
  /\ stage' = "build"
  /\ GetConnection(c, port, PoolAt(port))
  /\ UNCHANGED <<port, poolPort, alive, performLogin, token, expired, built,
                 serverVars, spinning, kind, lconn, home, todo, wanted, part,
                 out, lost>>

(* The build's answer, or its failure, does not matter: alive is set.      *)
Connected(c) ==
  /\ At(c, "resumed") /\ stage = "build"
  /\ alive' = TRUE
  /\ built' = "yes"
  /\ EndConnect(c)
  /\ out' = [out EXCEPT ![c] = "ok"]
  /\ UNCHANGED <<port, poolPort, pool, performLogin, token, expired,
                 serverVars, spinning, kind, conn, lconn, at, applied, lost>>

ConnectFailed(c) ==
  /\ At(c, "resumed") /\ out[c] # "ok"
  /\ \/ stage \in {"login", "node"}
     \/ stage = "address" /\ todo = {}

(* "Node is offline... fake a node"                                        *)
FakeNode(c) ==
  /\ ConnectFailed(c) /\ out[c] = "error"
  /\ port' = home
  /\ alive' = FALSE
  /\ built' = "yes"
  /\ EndConnect(c)
  /\ UNCHANGED <<poolPort, pool, performLogin, token, expired, serverVars,
                 spinning, kind, conn, lconn, at, applied, out,
                 lost>>

(* An ASProtocolError leaves connect as it is.                             *)
RaiseRefusal(c) ==
  /\ ConnectFailed(c) /\ out[c] = "refused"
  /\ built' = IF built = "no" THEN "failed" ELSE built
  /\ EndConnect(c)
  /\ UNCHANGED <<port, poolPort, pool, alive, performLogin, token, expired,
                 serverVars, spinning, kind, conn, lconn, at, applied, out, lost>>

(* close() when the shell exits, with no call running.                     *)
CloseNode ==
  /\ built = "yes" /\ poolPort # NoPort /\ ~spinning
  /\ \A c \in Call : pc[c] = "idle"
  /\ LET closed == PoolAt(port)
     IN  /\ open' = open \ closed
         /\ up' = up \ closed
         /\ authed' = authed \ closed
         /\ Abandon(pool \ closed)
  /\ pool' = {}
  /\ poolPort' = NoPort
  /\ UNCHANGED <<port, alive, performLogin, token, expired, built, secure,
                 spinning, callVars, connectVars>>

-----------------------------------------------------------------------------
(* The server, the network and the clock                                   *)

ConnectionDrops(s) ==
  /\ Drops /\ s \in up
  /\ up' = up \ {s}
  /\ UNCHANGED <<nodeVars, open, authed, secure, spinning, callVars,
                 connectVars, lost>>

(* A restart drops every connection, forgets sessions and may turn         *)
(* security on or off.                                                     *)
ServerRestarts ==
  /\ Drops /\ Sessions
  /\ up' = {}
  /\ secure' \in BOOLEAN
  /\ token' = IF token = "valid" THEN "revoked" ELSE token
  /\ UNCHANGED <<port, poolPort, pool, alive, performLogin, expired, built,
                 open, authed, spinning, callVars, connectVars, lost>>

(* asadm's own expiry: session_ttl less 60 seconds.                        *)
SessionExpires ==
  /\ Sessions /\ token = "valid" /\ ~expired
  /\ expired' = TRUE
  /\ UNCHANGED <<port, poolPort, pool, alive, performLogin, token, built,
                 serverVars, spinning, callVars, connectVars, lost>>

SessionRevoked ==
  /\ Sessions /\ token = "valid"
  /\ token' = "revoked"
  /\ UNCHANGED <<port, poolPort, pool, alive, performLogin, expired, built,
                 serverVars, spinning, callVars, connectVars, lost>>

(* The interpreter finalizes a socket nothing refers to.                   *)
Collect(s) ==
  /\ s \in lost
  /\ lost' = lost \ {s}
  /\ CloseSocket(s)
  /\ UNCHANGED <<nodeVars, secure, spinning, callVars, connectVars>>

-----------------------------------------------------------------------------
CallStep(c) ==
  \/ ProbeAnswered(c) \/ ProbeFailed(c) \/ Discarded(c)
  \/ Dialled(c) \/ DialFailed(c)
  \/ Authenticated(c) \/ LoginAgain(c) \/ AuthRefused(c) \/ AuthRaised(c)
  \/ Executed(c) \/ InfoReplied(c) \/ InfoEmpty(c)
  \/ AdminReplied(c) \/ AdminRefused(c) \/ RequestBroken(c) \/ Spin(c)
  \/ LoginDialled(c) \/ LoginDialFailed(c) \/ LoggedIn(c) \/ LoginNoPool(c)
  \/ LoginRefused(c) \/ LoginRaised(c)
  \/ Drain(c) \/ Reinitialize(c) \/ GatherEnded(c) \/ Unresolved(c)
  \/ NextAddress(c) \/ AddressAnswered(c)
  \/ \E d \in Call, r \in wanted : BeginGathered(c, d, r)
  \/ Connected(c) \/ FakeNode(c) \/ RaiseRefusal(c)

Start(c) == StartConnect(c) \/ \E k \in {"info", "admin"} : StartRequest(c, k)

Environment ==
  \/ ServerRestarts \/ SessionExpires \/ SessionRevoked
  \/ \E s \in Sock : ConnectionDrops(s) \/ Collect(s)

Next == (\E c \in Call : Start(c) \/ CallStep(c)) \/ CloseNode \/ Environment

Spec == Init /\ [][Next]_vars

(* The event loop resumes every coroutine whose await is over, and a       *)
(* server that holds a connection answers.  Users, drops and sessions owe  *)
(* nothing.                                                                *)
FairSpec == Spec /\ \A c \in Call : WF_vars(CallStep(c))

-----------------------------------------------------------------------------
(* Properties                                                              *)

Uses(c, s) == s \in Sock /\ (conn[c] = s \/ lconn[c] = s)

(* A socket carries one conversation: no two calls have the same socket,   *)
(* no call keeps one that is in the pool, and a call's login uses another  *)
(* socket than its request.  Otherwise one call would read the other's     *)
(* reply.                                                                  *)
ExclusiveSockets ==
  \A c \in Call :
    /\ conn[c] = lconn[c] => conn[c] = NoSock
    /\ \A s \in Sock : Uses(c, s) =>
         s \notin pool /\ \A d \in Call : Uses(d, s) => d = c

(* A request only travels on an open socket, and to a server with security *)
(* only on one that server has authenticated, whether it comes from the    *)
(* pool, from a login or from a second login after a refusal.              *)
AuthenticatedUse ==
  \A c \in Call : pc[c] = "sent" =>
    /\ conn[c] \in open
    /\ conn[c] \in up /\ secure => conn[c] \in authed

(* Every open socket can still be closed: it is in the pool or a running   *)
(* call has it, unless one of the failures that abandon sockets happened.  *)
SocketsAccountedFor == open \subseteq pool \cup Held \cup lost

(* With a server that keeps its connections and sessions no call abandons  *)
(* a socket.                                                               *)
NoSocketLost == lost = {}

(* _admin_cadmin: "Either restore the socket in the pool or close it if it *)
(* is full" -- at most socket_pool_max_size sockets are pooled.            *)
PoolWithinMax == Cardinality(pool) <= MaxPool

(* What does hold when logins add to the pool without looking: two sockets *)
(* more for each other call that can run, those that a connect gathers     *)
(* counted.  A call whose own socket was not accepted logs in at the       *)
(* node's port, and while a connect goes through the service addresses     *)
(* that port can be the pool's twice.                                      *)
PoolWithinMaxAndLogins ==
  Cardinality(pool) <= MaxPool + 2 * (Cardinality(Call) - 1)

(* An admin call that reports an error has changed nothing at the server,  *)
(* as long as its connection stays up.                                     *)
AdminErrorMeansUnapplied ==
  \A c \in Call : kind[c] = "admin" /\ pc[c] = "idle" /\ out[c] # "ok"
                   => ~applied[c]

(* Node.__init__: "timeout -- number of seconds to wait before giving up   *)
(* on the node".  Every request ends, with a result or an exception.       *)
EveryRequestEnds ==
  \A c \in Call : (pc[c] # "idle" /\ kind[c] # "connect") ~> (pc[c] = "idle")

(* A connect ends too, unless requests keep putting sockets into the pool  *)
(* it is closing for ever.                                                 *)
EveryConnectEnds ==
  <>[](\A c \in Call : kind[c] = "connect" \/ pc[c] = "idle")
    => (Connecting ~> ~Connecting)
=============================================================================
