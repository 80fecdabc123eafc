----------------------------- MODULE Connection -----------------------------
(***************************************************************************)
(* The connection of NeoPoolModbusClient (client.py) and the two locks:    *)
(* get_client with its health check, its attempts and its backoff, the     *)
(* error paths that close the connection, the second attempt of a poll,    *)
(* and close(), by tasks that run at the same time and may be cancelled.   *)
(*                                                                         *)
(* A request here is answered or not; what it is about is the subject of   *)
(* the other modules.  Time passes as two facts that lapse: the backoff,   *)
(* and the last success having been less than two minutes ago.             *)
(***************************************************************************)
EXTENDS Naturals

CONSTANTS
    Tasks,
    Clients,      \* pymodbus client objects
    NoTask, NoClient,
    MaxAttempts   \* _max_connection_retries

ASSUME NoTaskAssumption == NoTask \notin Tasks
ASSUME NoClientAssumption == NoClient \notin Clients
ASSUME AttemptsAssumption == MaxAttempts \in Nat \ {0}

VARIABLES
    link,         \* pymodbus: the state of each client object
    client,       \* self._client
    clientLock,   \* the holder of self._client_lock
    cacheHolder,    \* the holder of self._cache_lock
    backoff,      \* self._backoff_until lies ahead
    recent,       \* self._last_successful_operation is recent
    kind, callPc, held, attempt, retried  \* one call's locals

lockVars == <<clientLock, cacheHolder>>
timeVars == <<backoff, recent>>
callVars == <<kind, callPc, held, attempt, retried>>
connVars == <<link, client, lockVars, timeVars, callVars>>

(* Requests of the calls: polls, writes, single reads, and the timer calls *)
(* (read_all_timers, write_timer), which go on, or end well, after some of *)
(* the errors.  An RMW is a read or not, and a write, under _cache_lock.   *)
RequestKinds == {"poll", "write", "read", "timer"}

ConnInit ==
    /\ link = [c \in Clients |-> "closed"]
    /\ client = NoClient
    /\ clientLock = NoTask
    /\ cacheHolder = NoTask
    /\ backoff = FALSE
    /\ recent = FALSE
    /\ kind = [t \in Tasks |-> "read"]
    /\ callPc = [t \in Tasks |-> "idle"]
    /\ held = [t \in Tasks |-> NoClient]
    /\ attempt = [t \in Tasks |-> 0]
    /\ retried = [t \in Tasks |-> FALSE]

-----------------------------------------------------------------------------
(* pymodbus, the network, and time                                         *)

(* A connection breaks, and pymodbus reconnects a client nobody closed.    *)
LinkLost(c) ==
    /\ link[c] = "up"
    /\ link' = [link EXCEPT ![c] = "lost"]
    /\ UNCHANGED <<client, lockVars, timeVars, callVars>>

LinkBack(c) ==
    /\ link[c] = "lost"
    /\ link' = [link EXCEPT ![c] = "up"]
    /\ UNCHANGED <<client, lockVars, timeVars, callVars>>

BackoffLapses ==
    /\ backoff
    /\ backoff' = FALSE
    /\ UNCHANGED <<link, client, lockVars, recent, callVars>>

RecentLapses ==
    /\ recent
    /\ recent' = FALSE
    /\ UNCHANGED <<link, client, lockVars, backoff, callVars>>

-----------------------------------------------------------------------------
(* Parts of the calls                                                      *)

Connected == client # NoClient /\ link[client] = "up"

(* _safe_close_client                                                      *)
Closed == IF client = NoClient THEN link ELSE [link EXCEPT ![client] = "closed"]

Become(t, where) == callPc' = [callPc EXCEPT ![t] = where]

Releases(t, lock) == IF lock = t THEN NoTask ELSE lock

(* A call is over and leaves its locks.                                    *)
End(t) ==
    /\ Become(t, "idle")
    /\ clientLock' = Releases(t, clientLock)
    /\ cacheHolder' = Releases(t, cacheHolder)
    /\ held' = [held EXCEPT ![t] = NoClient]
    /\ attempt' = [attempt EXCEPT ![t] = 0]
    /\ retried' = [retried EXCEPT ![t] = FALSE]
    /\ UNCHANGED kind

(* A call without a client goes to its error path; a single read has none, *)
(* and an RMW ends with its read.                                          *)
GoToError(t) ==
    /\ Become(t, "failed")
    /\ clientLock' = Releases(t, clientLock)
    /\ held' = [held EXCEPT ![t] = NoClient]
    /\ attempt' = [attempt EXCEPT ![t] = 0]
    /\ UNCHANGED <<cacheHolder, kind, retried>>

NoConnection(t) == IF kind[t] = "read" THEN End(t) ELSE GoToError(t)

(* Mutant: the old client is forgotten without being closed.               *)
AttemptUnclosed(t, n) ==
    \E c \in Clients :
        /\ link[c] = "closed"
        /\ \A u \in Tasks : held[u] # c
        /\ link' = [link EXCEPT ![c] = "new"]
        /\ client' = c
        /\ clientLock' = t
        /\ attempt' = [attempt EXCEPT ![t] = n]
        /\ Become(t, "connect")
        /\ UNCHANGED <<cacheHolder, timeVars, kind, held, retried>>

(* One attempt begins: what there was is closed, a new client is made.     *)
Attempt(t, n) ==
    \E c \in Clients :
        /\ link[c] = "closed"
        /\ \A u \in Tasks : held[u] # c
        /\ link' = [Closed EXCEPT ![c] = "new"]
        /\ client' = c
        /\ clientLock' = t
        /\ attempt' = [attempt EXCEPT ![t] = n]
        /\ Become(t, "connect")
        /\ UNCHANGED <<cacheHolder, timeVars, kind, held, retried>>

(* get_client returns.                                                     *)
Serve(t) ==
    /\ Become(t, "request")
    /\ held' = [held EXCEPT ![t] = client]
    /\ attempt' = [attempt EXCEPT ![t] = 0]
    /\ clientLock' = NoTask
    /\ UNCHANGED <<cacheHolder, kind, retried>>

-----------------------------------------------------------------------------
(* get_client                                                              *)

InBackoff(t) ==
    /\ backoff
    /\ NoConnection(t)
    /\ UNCHANGED <<link, client, timeVars>>

Reuse(t) ==
    /\ ~backoff /\ Connected /\ recent
    /\ Serve(t)
    /\ UNCHANGED <<link, client, timeVars>>

StartHealthCheck(t) ==
    /\ ~backoff /\ Connected /\ ~recent
    /\ clientLock' = t
    /\ Become(t, "health")
    /\ UNCHANGED <<link, client, cacheHolder, timeVars, kind, held, attempt, retried>>

StartConnecting(t) ==
    /\ ~backoff /\ ~Connected
    /\ Attempt(t, 1)

(* Mutant: the backoff is looked at before the lock is taken.              *)
GetClientUnchecked(t) ==
    /\ callPc[t] = "get"
    /\ clientLock = NoTask
    /\ Reuse(t) \/ StartHealthCheck(t) \/ (~Connected /\ Attempt(t, 1))

GetClient(t) ==
    /\ callPc[t] = "get"
    /\ clientLock = NoTask
    /\ InBackoff(t) \/ Reuse(t) \/ StartHealthCheck(t) \/ StartConnecting(t)

Healthy(t) ==
    /\ callPc[t] = "health"
    /\ Connected
    /\ recent' = TRUE
    /\ Serve(t)
    /\ UNCHANGED <<link, client, backoff>>

Unhealthy(t) ==
    /\ callPc[t] = "health"
    /\ Attempt(t, 1)

Connects(t) ==
    /\ callPc[t] = "connect"
    /\ link' = [link EXCEPT ![client] = "up"]
    /\ backoff' = FALSE
    /\ recent' = TRUE
    /\ Serve(t)
    /\ UNCHANGED client

(* Mutant: one attempt too many.                                           *)
AttemptFailsLate(t) ==
    /\ callPc[t] = "connect"
    /\ attempt[t] <= MaxAttempts
    /\ Become(t, "pause")
    /\ UNCHANGED <<link, client, lockVars, timeVars, kind, held, attempt, retried>>

AttemptFails(t) ==
    /\ callPc[t] = "connect"
    /\ attempt[t] < MaxAttempts
    /\ Become(t, "pause")
    /\ UNCHANGED <<link, client, lockVars, timeVars, kind, held, attempt, retried>>

NextAttempt(t) ==
    /\ callPc[t] = "pause"
    /\ Attempt(t, attempt[t] + 1)

GiveUp(t) ==
    /\ callPc[t] = "connect"
    /\ attempt[t] = MaxAttempts
    /\ backoff' = TRUE
    /\ NoConnection(t)
    /\ UNCHANGED <<link, client, recent>>

-----------------------------------------------------------------------------
(* The calls                                                               *)

Begin(t) ==
    /\ callPc[t] = "idle"
    /\ \/ /\ \E k \in RequestKinds : kind' = [kind EXCEPT ![t] = k]
          /\ Become(t, "get")
       \/ /\ kind' = [kind EXCEPT ![t] = "write"]
          /\ Become(t, "cache")
       \/ /\ kind' = [kind EXCEPT ![t] = "close"]
          /\ Become(t, "closing")
    /\ UNCHANGED <<link, client, lockVars, timeVars, held, attempt, retried>>

(* read_all_timers answers from its cache, which counts as a success too.  *)
TimersFromCache(t) ==
    /\ callPc[t] = "idle"
    /\ recent' = TRUE
    /\ UNCHANGED <<link, client, lockVars, backoff, callVars>>

(* An RMW takes the cache lock, and keeps it to its end.                   *)
RmwTakesCache(t) ==
    /\ callPc[t] = "cache"
    /\ cacheHolder = NoTask
    /\ cacheHolder' = t
    /\ \E k \in {"read", "write"} : kind' = [kind EXCEPT ![t] = k]
    /\ Become(t, "get")
    /\ UNCHANGED <<link, client, clientLock, timeVars, held, attempt, retried>>

(* Everything asked for has been answered.  Only a poll or a write counts  *)
(* as a success; a poll has its snapshot to merge first, an RMW its write  *)
(* to do.                                                                  *)
Answered(t) ==
    /\ callPc[t] = "request"
    /\ link[held[t]] = "up"
    /\ \/ /\ kind[t] = "poll"
          /\ Become(t, "merge")
          /\ held' = [held EXCEPT ![t] = NoClient]
          /\ UNCHANGED <<lockVars, recent, kind, attempt, retried>>
       \/ /\ kind[t] = "read" /\ cacheHolder = t
          /\ Become(t, "get")
          /\ held' = [held EXCEPT ![t] = NoClient]
          /\ kind' = [kind EXCEPT ![t] = "write"]
          /\ UNCHANGED <<lockVars, recent, attempt, retried>>
       \/ /\ kind[t] = "read" /\ cacheHolder # t
          /\ End(t)
          /\ UNCHANGED recent
       \/ /\ kind[t] \in {"write", "timer"}
          /\ End(t)
          /\ recent' = TRUE
    /\ UNCHANGED <<link, client, backoff>>

(* Mutant: a failed request sets the backoff, outside the client lock.     *)
FailsBacksOff(t) ==
    /\ callPc[t] = "request"
    /\ NoConnection(t)
    /\ backoff' = TRUE
    /\ UNCHANGED <<link, client, recent>>

(* No answer, a rejection, or a connection that is gone.  The timer calls  *)
(* end well after rejections (and read_all_timers after any error).        *)
Fails(t) ==
    /\ callPc[t] = "request"
    /\ \/ /\ NoConnection(t)
          /\ UNCHANGED recent
       \/ /\ kind[t] = "timer"
          /\ End(t)
          /\ recent' = TRUE
    /\ UNCHANGED <<link, client, backoff>>

(* The poll's snapshot is merged under the cache lock.                     *)
PollTakesCache(t) ==
    /\ callPc[t] = "merge"
    /\ cacheHolder = NoTask
    /\ recent' = TRUE
    /\ End(t)
    /\ UNCHANGED <<link, client, backoff>>

(* Mutant: the connection is closed without the client lock.               *)
ErrorPathUnlocked(t) ==
    /\ callPc[t] = "failed"
    /\ link' = Closed
    /\ client' = NoClient
    /\ \/ /\ kind[t] = "poll" /\ ~retried[t]
          /\ Become(t, "get")
          /\ retried' = [retried EXCEPT ![t] = TRUE]
          /\ UNCHANGED <<lockVars, kind, held, attempt>>
       \/ /\ kind[t] # "poll" \/ retried[t]
          /\ End(t)
    /\ UNCHANGED timeVars

(* The error path closes whatever client there is by now; a poll tries     *)
(* once more.                                                              *)
ErrorPath(t) ==
    /\ callPc[t] = "failed"
    /\ clientLock = NoTask
    /\ link' = Closed
    /\ client' = NoClient
    /\ \/ /\ kind[t] = "poll" /\ ~retried[t]
          /\ Become(t, "get")
          /\ retried' = [retried EXCEPT ![t] = TRUE]
          /\ UNCHANGED <<lockVars, kind, held, attempt>>
       \/ /\ kind[t] # "poll" \/ retried[t]
          /\ End(t)
    /\ UNCHANGED timeVars

(* Mutant: the cache is reset inside the client lock.                      *)
CloseClientNested(t) ==
    /\ callPc[t] = "closing"
    /\ clientLock = NoTask
    /\ link' = Closed
    /\ client' = NoClient
    /\ backoff' = FALSE
    /\ clientLock' = t
    /\ Become(t, "reset")
    /\ UNCHANGED <<cacheHolder, recent, kind, held, attempt, retried>>

(* close(): first the connection, then the cache.                          *)
CloseClient(t) ==
    /\ callPc[t] = "closing"
    /\ clientLock = NoTask
    /\ link' = Closed
    /\ client' = NoClient
    /\ backoff' = FALSE
    /\ Become(t, "reset")
    /\ UNCHANGED <<lockVars, recent, kind, held, attempt, retried>>

CloseCache(t) ==
    /\ callPc[t] = "reset"
    /\ cacheHolder = NoTask
    /\ End(t)
    /\ UNCHANGED <<link, client, timeVars>>

Cancel(t) ==
    /\ callPc[t] # "idle"
    /\ End(t)
    /\ UNCHANGED <<link, client, timeVars>>

(* Steps that wait for a lock, and the others.                             *)
LockStep(t) ==
    \/ GetClient(t) \/ RmwTakesCache(t) \/ PollTakesCache(t)
    \/ ErrorPath(t) \/ CloseClient(t) \/ CloseCache(t)

OwnStep(t) ==
    \/ Healthy(t) \/ Unhealthy(t) \/ Connects(t) \/ AttemptFails(t) \/ NextAttempt(t) \/ GiveUp(t)
    \/ Answered(t) \/ Fails(t)

ConnNext ==
    \/ \E c \in Clients : LinkLost(c) \/ LinkBack(c)
    \/ BackoffLapses \/ RecentLapses
    \/ \E t \in Tasks : Begin(t) \/ TimersFromCache(t) \/ LockStep(t) \/ OwnStep(t) \/ Cancel(t)

ConnSpec == ConnInit /\ [][ConnNext]_connVars

(* Requests, attempts and pauses end.  An asyncio.Lock hands itself to its *)
(* waiters in the order they came.                                         *)
ConnFairness == \A t \in Tasks : SF_connVars(LockStep(t)) /\ WF_connVars(OwnStep(t))

ConnFairSpec == ConnSpec /\ ConnFairness

-----------------------------------------------------------------------------
(* Properties                                                              *)

ConnTypeOK ==
    /\ link \in [Clients -> {"closed", "new", "up", "lost"}]
    /\ client \in Clients \cup {NoClient}
    /\ clientLock \in Tasks \cup {NoTask}
    /\ cacheHolder \in Tasks \cup {NoTask}
    /\ backoff \in BOOLEAN /\ recent \in BOOLEAN
    /\ kind \in [Tasks -> RequestKinds \cup {"close"}]
    /\ callPc \in [Tasks -> {"idle", "cache", "get", "health", "connect", "pause", "request",
                          "merge", "failed", "closing", "reset"}]
    /\ held \in [Tasks -> Clients \cup {NoClient}]
    /\ attempt \in [Tasks -> 0..MaxAttempts]
    /\ retried \in [Tasks -> BOOLEAN]

(* A client object that is not closed, which pymodbus would keep connected *)
(* or reconnect, is the one in self._client: none is lost sight of, not    *)
(* by failed attempts, cancelled ones, or error paths.                     *)
OneConnection == \A c \in Clients : link[c] # "closed" => c = client

(* In backoff, in which get_client refuses every call, there is no         *)
(* connection that a call could have used.                                 *)
BackoffMeansDown == backoff => \A c \in Clients : link[c] \in {"closed", "new"}

(* No connection is attempted in backoff, not even by a call that has been *)
(* waiting for the lock while another one gave up.                         *)
NoAttemptInBackoff ==
    [][\A c \in Clients : link[c] # "new" /\ link'[c] = "new" => ~backoff]_connVars

(* get_client and the paths that close the connection keep the promises of *)
(* Session, however the calls interleave: only a whole series of failed    *)
(* attempts by one call begins a backoff, and no error path and no close() *)
(* of another call takes the client away from under an attempt.            *)
Status == IF client = NoClient THEN "none" ELSE link[client]

Tries == IF clientLock = NoTask THEN 0 ELSE attempt[clientLock]

Policy == INSTANCE Session WITH
    Sessions <- Clients, None <- NoClient, MaxTries <- MaxAttempts,
    session <- client, status <- Status, tries <- Tries, refusing <- backoff

KeepsPolicy == Policy!Spec

(* The call that a call waits for: the holder of the lock it needs next.   *)
WaitsFor(t) ==
    CASE callPc[t] \in {"get", "failed", "closing"} -> clientLock
      [] callPc[t] \in {"cache", "merge", "reset"} -> cacheHolder
      [] OTHER -> NoTask

UnderWay(t) == t \in Tasks /\ callPc[t] # "idle"

Proceeds(t) == UnderWay(t) /\ WaitsFor(t) = NoTask

(* An RMW keeps _cache_lock while its requests take _client_lock, and      *)
(* close() and the error paths need both: still every call that waits does *)
(* so for a call under way that waits for nobody, or for one that does.    *)
(* No calls wait for each other, and none for a lock that a call now over, *)
(* failed or cancelled, has kept.                                          *)
NoCircularWait ==
    \A t \in Tasks : UnderWay(t) =>
        \/ Proceeds(t)
        \/ Proceeds(WaitsFor(t))
        \/ UnderWay(WaitsFor(t)) /\ Proceeds(WaitsFor(WaitsFor(t)))

(* Every call ends: nobody waits for ever for a lock of the other kind     *)
(* than the one it holds, or for one that has not been released.           *)
CallsEnd == \A t \in Tasks : callPc[t] # "idle" ~> callPc[t] = "idle"

=============================================================================
