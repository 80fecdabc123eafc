-------------------------- MODULE ConnectionProofs --------------------------
(***************************************************************************)
(* Theorems about Connection, for every set of tasks and client objects    *)
(* and every number of attempts.  The argument: between the look at the    *)
(* backoff and the end of the last attempt a task holds the client lock,   *)
(* and only its holder makes clients, connects them, or backs off.         *)
(***************************************************************************)
EXTENDS Connection, TLAPS

(* The part of get_client that awaits something is under the client lock,  *)
(* and begins outside of the backoff; an attempt under way is that of      *)
(* self._client, and after a pause there is one more to make.              *)
ConnectingOK(t) ==
    /\ callPc[t] \in {"health", "connect", "pause"} => clientLock = t /\ ~backoff
    /\ callPc[t] = "connect" => client \in Clients /\ link[client] = "new"
    /\ callPc[t] = "pause" => attempt[t] < MaxAttempts

ConnectingInv == \A t \in Tasks : ConnectingOK(t)

IInv == ConnTypeOK /\ OneConnection /\ BackoffMeansDown /\ ConnectingInv

-----------------------------------------------------------------------------
(* Parts of the calls                                                      *)

LEMMA ClosedLinks ==
    ASSUME ConnTypeOK, OneConnection
    PROVE  /\ Closed \in [Clients -> {"closed", "new", "up", "lost"}]
           /\ \A c \in Clients : Closed[c] = "closed"
BY NoClientAssumption DEF Closed, ConnTypeOK, OneConnection

(* A call that ends leaves the others' state and locks alone.              *)
LEMMA EndKeeps ==
    ASSUME IInv, NEW t \in Tasks, End(t)
    PROVE  /\ kind' = kind
           /\ callPc' = [callPc EXCEPT ![t] = "idle"]
           /\ held' \in [Tasks -> Clients \cup {NoClient}]
           /\ attempt' \in [Tasks -> 0..MaxAttempts]
           /\ retried' \in [Tasks -> BOOLEAN]
           /\ clientLock' \in Tasks \cup {NoTask}
           /\ cacheHolder' \in Tasks \cup {NoTask}
           /\ \A u \in Tasks : u # t => attempt'[u] = attempt[u]
           /\ \A u \in Tasks : u # t /\ clientLock = u => clientLock' = u
BY AttemptsAssumption DEF IInv, ConnTypeOK, End, Become, Releases

LEMMA ErrorKeeps ==
    ASSUME IInv, NEW t \in Tasks, GoToError(t)
    PROVE  /\ kind' = kind
           /\ callPc' = [callPc EXCEPT ![t] = "failed"]
           /\ held' \in [Tasks -> Clients \cup {NoClient}]
           /\ attempt' \in [Tasks -> 0..MaxAttempts]
           /\ retried' \in [Tasks -> BOOLEAN]
           /\ clientLock' \in Tasks \cup {NoTask}
           /\ cacheHolder' \in Tasks \cup {NoTask}
           /\ \A u \in Tasks : u # t => attempt'[u] = attempt[u]
           /\ \A u \in Tasks : u # t /\ clientLock = u => clientLock' = u
BY AttemptsAssumption DEF IInv, ConnTypeOK, GoToError, Become, Releases

(* A call that goes on or ends without touching the connection.            *)
LEMMA CallKeeps ==
    ASSUME IInv, NEW t \in Tasks, NEW where,
           where \in {"idle", "cache", "get", "request", "merge", "failed", "closing", "reset"},
           callPc' = [callPc EXCEPT ![t] = where],
           kind' \in [Tasks -> RequestKinds \cup {"close"}],
           held' \in [Tasks -> Clients \cup {NoClient}],
           attempt' \in [Tasks -> 0..MaxAttempts],
           retried' \in [Tasks -> BOOLEAN],
           clientLock' \in Tasks \cup {NoTask},
           cacheHolder' \in Tasks \cup {NoTask},
           \A u \in Tasks : u # t => attempt'[u] = attempt[u],
           \A u \in Tasks : u # t /\ clientLock = u => clientLock' = u,
           recent' \in BOOLEAN,
           UNCHANGED <<link, client, backoff>>
    PROVE  IInv'
<1>1. ConnTypeOK'
  BY DEF IInv, ConnTypeOK
<1>2. OneConnection' /\ BackoffMeansDown'
  BY DEF IInv, OneConnection, BackoffMeansDown
<1>3. ConnectingInv'
  BY DEF IInv, ConnectingInv, ConnectingOK, ConnTypeOK
<1>4. QED
  BY <1>1, <1>2, <1>3 DEF IInv

(* The end of a call, or its way to the error path.                        *)
LEMMA EndingKeeps ==
    ASSUME IInv, NEW t \in Tasks, End(t) \/ NoConnection(t),
           recent' \in BOOLEAN, UNCHANGED <<link, client, backoff>>
    PROVE  IInv'
<1>1. kind \in [Tasks -> RequestKinds \cup {"close"}]
  BY DEF IInv, ConnTypeOK
<1>2. CASE End(t)
  BY <1>1, <1>2, EndKeeps, CallKeeps
<1>3. CASE GoToError(t)
  BY <1>1, <1>3, ErrorKeeps, CallKeeps
<1>4. QED
  BY <1>2, <1>3 DEF NoConnection

(* An attempt, by a task that may hold the lock.                           *)
LEMMA AttemptKeeps ==
    ASSUME IInv, NEW t \in Tasks, NEW n \in 1..MaxAttempts, Attempt(t, n),
           clientLock \in {NoTask, t}, ~backoff
    PROVE  IInv'
<1>1. PICK c \in Clients :
        /\ link' = [Closed EXCEPT ![c] = "new"]
        /\ client' = c
        /\ clientLock' = t
        /\ attempt' = [attempt EXCEPT ![t] = n]
        /\ callPc' = [callPc EXCEPT ![t] = "connect"]
        /\ UNCHANGED <<cacheHolder, timeVars, kind, held, retried>>
  BY DEF Attempt, Become
<1>2. /\ link' \in [Clients -> {"closed", "new", "up", "lost"}]
      /\ \A d \in Clients : link'[d] = IF d = c THEN "new" ELSE "closed"
  BY <1>1, ClosedLinks DEF IInv
<1>3. ConnTypeOK'
  BY <1>1, <1>2 DEF IInv, ConnTypeOK, timeVars
<1>4. OneConnection' /\ BackoffMeansDown'
  BY <1>1, <1>2 DEF OneConnection, BackoffMeansDown
<1>5. ASSUME NEW u \in Tasks PROVE ConnectingOK(u)'
  <2>1. CASE u = t
    BY <1>1, <1>2, <2>1 DEF ConnectingOK, timeVars, IInv, ConnTypeOK
  <2>2. CASE u # t
    BY <1>1, <2>2, NoTaskAssumption DEF ConnectingOK, ConnectingInv, IInv, ConnTypeOK
  <2>3. QED
    BY <2>1, <2>2
<1>6. QED
  BY <1>3, <1>4, <1>5 DEF IInv, ConnectingInv

(* get_client returns to a task that may hold the lock.                    *)
LEMMA ServeKeeps ==
    ASSUME IInv, NEW t \in Tasks, Serve(t), clientLock \in {NoTask, t}, backoff' = FALSE, recent' \in BOOLEAN,
           link' \in [Clients -> {"closed", "new", "up", "lost"}],
           \A c \in Clients : link'[c] = link[c] \/ c = client, UNCHANGED client
    PROVE  IInv'
<1>1. /\ callPc' = [callPc EXCEPT ![t] = "request"]
      /\ held' = [held EXCEPT ![t] = client]
      /\ attempt' = [attempt EXCEPT ![t] = 0]
      /\ clientLock' = NoTask
      /\ UNCHANGED <<cacheHolder, kind, retried>>
  BY DEF Serve, Become
<1>2. 0 \in 0..MaxAttempts
  BY AttemptsAssumption
<1>3. ConnTypeOK'
  BY <1>1, <1>2 DEF IInv, ConnTypeOK
<1>4. OneConnection' /\ BackoffMeansDown'
  BY DEF IInv, OneConnection, BackoffMeansDown
<1>5. ASSUME NEW u \in Tasks PROVE ConnectingOK(u)'
  <2>1. callPc'[u] \notin {"health", "connect", "pause"}
    BY <1>1, NoTaskAssumption DEF IInv, ConnTypeOK, ConnectingInv, ConnectingOK
  <2>2. QED
    BY <2>1 DEF ConnectingOK
<1>6. QED
  BY <1>3, <1>4, <1>5 DEF IInv, ConnectingInv

(* A step under the client lock, within get_client.                        *)
LEMMA InsideKeeps ==
    ASSUME IInv, NEW t \in Tasks, NEW where \in {"health", "pause"},
           clientLock \in {NoTask, t}, ~backoff, where = "pause" => attempt[t] < MaxAttempts,
           clientLock' = t, Become(t, where),
           UNCHANGED <<link, client, cacheHolder, timeVars, kind, held, attempt, retried>>
    PROVE  IInv'
<1>1. callPc' = [callPc EXCEPT ![t] = where]
  BY DEF Become
<1>2. ConnTypeOK'
  BY <1>1 DEF IInv, ConnTypeOK, timeVars
<1>3. OneConnection' /\ BackoffMeansDown'
  BY DEF IInv, OneConnection, BackoffMeansDown, timeVars
<1>4. ConnectingInv'
  BY <1>1, NoTaskAssumption DEF IInv, ConnTypeOK, ConnectingInv, ConnectingOK, timeVars
<1>5. QED
  BY <1>2, <1>3, <1>4 DEF IInv

(* The connection is closed by a task that does not connect.               *)
LEMMA ClosingKeeps ==
    ASSUME IInv, NEW t \in Tasks, clientLock = NoTask, link' = Closed, client' = NoClient,
           NEW where \in {"get", "idle", "reset"}, callPc' = [callPc EXCEPT ![t] = where],
           held' \in [Tasks -> Clients \cup {NoClient}],
           attempt' \in [Tasks -> 0..MaxAttempts],
           retried' \in [Tasks -> BOOLEAN],
           clientLock' \in Tasks \cup {NoTask}, cacheHolder' \in Tasks \cup {NoTask},
           backoff' \in BOOLEAN, UNCHANGED <<recent, kind>>
    PROVE  IInv'
<1>1. link' \in [Clients -> {"closed", "new", "up", "lost"}] /\ \A c \in Clients : link'[c] = "closed"
  BY ClosedLinks DEF IInv
<1>2. ConnTypeOK'
  BY <1>1 DEF IInv, ConnTypeOK
<1>3. OneConnection' /\ BackoffMeansDown'
  BY <1>1 DEF OneConnection, BackoffMeansDown
<1>4. ASSUME NEW u \in Tasks PROVE ConnectingOK(u)'
  <2>1. callPc'[u] \notin {"health", "connect", "pause"}
    BY NoTaskAssumption DEF IInv, ConnTypeOK, ConnectingInv, ConnectingOK
  <2>2. QED
    BY <2>1 DEF ConnectingOK
<1>5. QED
  BY <1>2, <1>3, <1>4 DEF IInv, ConnectingInv

-----------------------------------------------------------------------------
(* The actions                                                             *)

LEMMA OutsideKeeps ==
    ASSUME IInv, \/ \E c \in Clients : LinkLost(c) \/ LinkBack(c)
                 \/ BackoffLapses \/ RecentLapses
    PROVE  IInv'
<1>1. CASE \E c \in Clients : LinkLost(c) \/ LinkBack(c)
  <2>1. PICK c \in Clients : LinkLost(c) \/ LinkBack(c)
    BY <1>1
  <2>2. /\ link[c] \in {"up", "lost"}
        /\ link' = [link EXCEPT ![c] = IF link[c] = "up" THEN "lost" ELSE "up"]
        /\ UNCHANGED <<client, lockVars, timeVars, callVars>>
    BY <2>1 DEF LinkLost, LinkBack
  <2>3. ConnTypeOK'
    BY <2>2 DEF IInv, ConnTypeOK, lockVars, timeVars, callVars
  <2>4. OneConnection'
    BY <2>2 DEF IInv, OneConnection, ConnTypeOK
  <2>5. BackoffMeansDown'
    BY <2>2 DEF IInv, BackoffMeansDown, timeVars
  <2>6. ConnectingInv'
    BY <2>2 DEF IInv, ConnTypeOK, ConnectingInv, ConnectingOK, lockVars, timeVars, callVars
  <2>7. QED
    BY <2>3, <2>4, <2>5, <2>6 DEF IInv
<1>2. CASE BackoffLapses \/ RecentLapses
  <2>1. /\ backoff' \in {backoff, FALSE} /\ recent' \in {recent, FALSE}
        /\ UNCHANGED <<link, client, lockVars, callVars>>
    BY <1>2 DEF BackoffLapses, RecentLapses
  <2>2. ConnTypeOK'
    BY <2>1 DEF IInv, ConnTypeOK, lockVars, callVars
  <2>3. OneConnection' /\ BackoffMeansDown' /\ (backoff' => backoff)
    BY <1>2, <2>1 DEF BackoffLapses, RecentLapses, IInv, OneConnection, BackoffMeansDown
  <2>4. ConnectingInv'
    BY <2>1, <2>3 DEF IInv, ConnectingInv, ConnectingOK, lockVars, callVars
  <2>5. QED
    BY <2>2, <2>3, <2>4 DEF IInv
<1>3. QED
  BY <1>1, <1>2

LEMMA GetClientKeeps ==
    ASSUME IInv, NEW t \in Tasks, GetClient(t)
    PROVE  IInv'
<1> USE DEF GetClient
<1>1. CASE InBackoff(t)
  BY <1>1, EndingKeeps DEF InBackoff, timeVars, IInv, ConnTypeOK
<1>2. CASE Reuse(t)
  BY <1>2, ServeKeeps DEF Reuse, timeVars, IInv, ConnTypeOK
<1>3. CASE StartHealthCheck(t)
  BY <1>3, InsideKeeps DEF StartHealthCheck
<1>4. CASE StartConnecting(t)
  BY <1>4, AttemptKeeps, AttemptsAssumption DEF StartConnecting
<1>5. QED
  BY <1>1, <1>2, <1>3, <1>4

LEMMA ConnectingKeeps ==
    ASSUME IInv, NEW t \in Tasks,
           Healthy(t) \/ Unhealthy(t) \/ Connects(t) \/ AttemptFails(t) \/ NextAttempt(t) \/ GiveUp(t)
    PROVE  IInv'
<1>1. clientLock = t /\ ~backoff
  BY DEF Healthy, Unhealthy, Connects, AttemptFails, NextAttempt, GiveUp, IInv, ConnectingInv, ConnectingOK
<1>2. CASE Healthy(t)
  BY <1>1, <1>2, ServeKeeps DEF Healthy, IInv, ConnTypeOK
<1>3. CASE Unhealthy(t)
  BY <1>1, <1>3, AttemptKeeps, AttemptsAssumption DEF Unhealthy
<1>4. CASE Connects(t)
  BY <1>1, <1>4, ServeKeeps DEF Connects, IInv, ConnTypeOK
<1>5. CASE AttemptFails(t)
  BY <1>1, <1>5, InsideKeeps DEF AttemptFails, lockVars
<1>6. CASE NextAttempt(t)
  <2>1. attempt[t] + 1 \in 1..MaxAttempts
    BY <1>6, AttemptsAssumption DEF NextAttempt, IInv, ConnTypeOK, ConnectingInv, ConnectingOK
  <2>2. QED
    BY <1>1, <1>6, <2>1, AttemptKeeps DEF NextAttempt
<1>7. CASE GiveUp(t)
  <2>1. /\ \A c \in Clients : link[c] \in {"closed", "new"}
        /\ backoff' = TRUE /\ UNCHANGED <<link, client, recent>>
    BY <1>7 DEF GiveUp, IInv, OneConnection, ConnectingInv, ConnectingOK
  <2>2. PICK where \in {"idle", "failed"} :
          /\ callPc' = [callPc EXCEPT ![t] = where]
          /\ kind' = kind
          /\ held' \in [Tasks -> Clients \cup {NoClient}]
          /\ attempt' \in [Tasks -> 0..MaxAttempts]
          /\ retried' \in [Tasks -> BOOLEAN]
          /\ clientLock' \in Tasks \cup {NoTask}
          /\ cacheHolder' \in Tasks \cup {NoTask}
    BY <1>7, EndKeeps, ErrorKeeps DEF GiveUp, NoConnection
  <2>3. ConnTypeOK'
    BY <2>1, <2>2 DEF IInv, ConnTypeOK
  <2>4. OneConnection' /\ BackoffMeansDown'
    BY <2>1 DEF IInv, OneConnection, BackoffMeansDown
  <2>5. ASSUME NEW u \in Tasks PROVE ConnectingOK(u)'
    <3>1. callPc'[u] \notin {"health", "connect", "pause"}
      BY <1>1, <2>2, NoTaskAssumption DEF IInv, ConnTypeOK, ConnectingInv, ConnectingOK
    <3>2. QED
      BY <3>1 DEF ConnectingOK
  <2>6. QED
    BY <2>3, <2>4, <2>5 DEF IInv, ConnectingInv
<1>8. QED
  BY <1>2, <1>3, <1>4, <1>5, <1>6, <1>7

LEMMA RequestKeeps ==
    ASSUME IInv, NEW t \in Tasks,
           Begin(t) \/ TimersFromCache(t) \/ RmwTakesCache(t) \/ Answered(t) \/ Fails(t) \/ PollTakesCache(t) \/ Cancel(t)
    PROVE  IInv'
<1>1. CASE Begin(t)
  <2>1. PICK where \in {"get", "cache", "closing"} : callPc' = [callPc EXCEPT ![t] = where]
    BY <1>1 DEF Begin, Become
  <2>2. /\ kind' \in [Tasks -> RequestKinds \cup {"close"}]
        /\ UNCHANGED <<link, client, lockVars, timeVars, held, attempt, retried>>
    BY <1>1 DEF Begin, IInv, ConnTypeOK, RequestKinds
  <2>3. QED
    BY <2>1, <2>2, CallKeeps DEF lockVars, timeVars, IInv, ConnTypeOK
<1>2. CASE TimersFromCache(t)
  BY <1>2 DEF TimersFromCache, IInv, ConnTypeOK, OneConnection, BackoffMeansDown, ConnectingInv,
              ConnectingOK, lockVars, callVars
<1>3. CASE RmwTakesCache(t)
  <2>1. /\ kind' \in [Tasks -> RequestKinds \cup {"close"}]
        /\ callPc' = [callPc EXCEPT ![t] = "get"] /\ cacheHolder' = t
        /\ UNCHANGED <<link, client, clientLock, timeVars, held, attempt, retried>>
    BY <1>3 DEF RmwTakesCache, Become, IInv, ConnTypeOK, RequestKinds
  <2>2. QED
    BY <2>1, CallKeeps DEF timeVars, IInv, ConnTypeOK
<1>4. CASE Answered(t)
  <2>1. UNCHANGED <<link, client, backoff>> /\ recent' \in BOOLEAN
    BY <1>4 DEF Answered, IInv, ConnTypeOK
  <2>2. CASE End(t)
    BY <2>1, <2>2, EndingKeeps
  <2>3. CASE ~End(t)
    <3>1. /\ callPc' = [callPc EXCEPT ![t] = "merge"] \/ callPc' = [callPc EXCEPT ![t] = "get"]
          /\ kind' \in [Tasks -> RequestKinds \cup {"close"}]
          /\ held' \in [Tasks -> Clients \cup {NoClient}]
          /\ UNCHANGED <<lockVars, attempt, retried>>
      BY <1>4, <2>3 DEF Answered, Become, IInv, ConnTypeOK, RequestKinds
    <3>2. QED
      BY <2>1, <3>1, CallKeeps DEF lockVars, IInv, ConnTypeOK
  <2>4. QED
    BY <2>2, <2>3
<1>5. CASE Fails(t)
  BY <1>5, EndingKeeps DEF Fails, IInv, ConnTypeOK
<1>6. CASE PollTakesCache(t)
  BY <1>6, EndingKeeps DEF PollTakesCache
<1>7. CASE Cancel(t)
  BY <1>7, EndingKeeps DEF Cancel, timeVars, IInv, ConnTypeOK
<1>8. QED
  BY <1>1, <1>2, <1>3, <1>4, <1>5, <1>6, <1>7

LEMMA CloseKeeps ==
    ASSUME IInv, NEW t \in Tasks, ErrorPath(t) \/ CloseClient(t) \/ CloseCache(t)
    PROVE  IInv'
<1>1. CASE ErrorPath(t) /\ End(t)
  BY <1>1, EndKeeps, ClosingKeeps DEF ErrorPath, timeVars, IInv, ConnTypeOK
<1>2. CASE ErrorPath(t) /\ ~End(t)
  <2>1. /\ callPc' = [callPc EXCEPT ![t] = "get"] /\ retried' = [retried EXCEPT ![t] = TRUE]
        /\ UNCHANGED <<lockVars, timeVars, kind, held, attempt>>
        /\ clientLock = NoTask /\ link' = Closed /\ client' = NoClient
    BY <1>2 DEF ErrorPath, Become
  <2>2. QED
    BY <2>1, ClosingKeeps DEF lockVars, timeVars, IInv, ConnTypeOK
<1>3. CASE CloseClient(t)
  BY <1>3, ClosingKeeps DEF CloseClient, Become, lockVars, IInv, ConnTypeOK
<1>4. CASE CloseCache(t)
  BY <1>4, EndingKeeps DEF CloseCache, timeVars, IInv, ConnTypeOK
<1>5. QED
  BY <1>1, <1>2, <1>3, <1>4

-----------------------------------------------------------------------------
(* Theorems                                                                *)

LEMMA InitIInv == ConnInit => IInv
<1> SUFFICES ASSUME ConnInit PROVE IInv
  OBVIOUS
<1>1. 0 \in 0..MaxAttempts
  BY AttemptsAssumption
<1>2. ConnTypeOK
  BY <1>1 DEF ConnInit, ConnTypeOK, RequestKinds
<1>3. OneConnection /\ BackoffMeansDown /\ ConnectingInv
  BY DEF ConnInit, OneConnection, BackoffMeansDown, ConnectingInv, ConnectingOK
<1>4. QED
  BY <1>2, <1>3 DEF IInv

LEMMA NextIInv == IInv /\ [ConnNext]_connVars => IInv'
<1> SUFFICES ASSUME IInv, [ConnNext]_connVars PROVE IInv'
  OBVIOUS
<1>1. CASE UNCHANGED connVars
  BY <1>1 DEF connVars, lockVars, timeVars, callVars, IInv, ConnTypeOK, OneConnection, BackoffMeansDown,
              ConnectingInv, ConnectingOK
<1>2. CASE (\E c \in Clients : LinkLost(c) \/ LinkBack(c)) \/ BackoffLapses \/ RecentLapses
  BY <1>2, OutsideKeeps
<1>3. ASSUME NEW t \in Tasks, Begin(t) \/ TimersFromCache(t) \/ LockStep(t) \/ OwnStep(t) \/ Cancel(t)
      PROVE  IInv'
  BY <1>3, GetClientKeeps, ConnectingKeeps, RequestKeeps, CloseKeeps DEF LockStep, OwnStep
<1>4. QED
  BY <1>1, <1>2, <1>3 DEF ConnNext

LEMMA Invariance == ConnSpec => []IInv
BY InitIInv, NextIInv, PTL DEF ConnSpec

(* Every variable keeps to its values, the number of attempts to its       *)
(* limit.                                                                  *)
THEOREM TypeCorrect == ConnSpec => []ConnTypeOK
<1>1. IInv => ConnTypeOK
  BY DEF IInv
<1>2. QED
  BY <1>1, Invariance, PTL

(* Whatever fails, is cancelled or closed, no client object but            *)
(* self._client is ever left open.                                         *)
THEOREM OneConnectionOnly == ConnSpec => []OneConnection
<1>1. IInv => OneConnection
  BY DEF IInv
<1>2. QED
  BY <1>1, Invariance, PTL

(* While get_client refuses calls there is no connection to use.           *)
THEOREM BackoffIsDown == ConnSpec => []BackoffMeansDown
<1>1. IInv => BackoffMeansDown
  BY DEF IInv
<1>2. QED
  BY <1>1, Invariance, PTL

(* In backoff no client is made, by however many calls wait for the lock.  *)
THEOREM NoAttemptsInBackoff == ConnSpec => NoAttemptInBackoff
<1> DEFINE Goal == \A c \in Clients : link[c] # "new" /\ link'[c] = "new" => ~backoff
<1>1. ASSUME IInv, [ConnNext]_connVars, backoff, NEW c \in Clients, link[c] # "new"
      PROVE  link'[c] # "new"
  <2>1. ASSUME NEW t \in Tasks, NEW n, Attempt(t, n),
               callPc[t] \in {"health", "pause"} \/ StartConnecting(t)
        PROVE  FALSE
    BY <1>1, <2>1 DEF StartConnecting, IInv, ConnectingInv, ConnectingOK
  <2>2. /\ Closed[c] # "new"
        /\ \A d \in Clients : [link EXCEPT ![d] = "lost"][c] # "new" /\ [link EXCEPT ![d] = "up"][c] # "new"
    BY <1>1, ClosedLinks DEF IInv, ConnTypeOK
  <2>3. ASSUME NEW t \in Tasks, Begin(t) \/ TimersFromCache(t) \/ LockStep(t) \/ OwnStep(t) \/ Cancel(t)
        PROVE  link' = link \/ link' = Closed \/ link' = [link EXCEPT ![client] = "up"]
    <3>1. CASE LockStep(t)
      BY <2>1, <3>1 DEF LockStep, GetClient, InBackoff, Reuse, StartHealthCheck, StartConnecting,
                        RmwTakesCache, PollTakesCache, ErrorPath, CloseClient, CloseCache
    <3>2. CASE OwnStep(t)
      BY <2>1, <3>2 DEF OwnStep, Healthy, Unhealthy, Connects, AttemptFails, NextAttempt, GiveUp,
                        Answered, Fails
    <3>3. QED
      BY <2>3, <3>1, <3>2 DEF Begin, TimersFromCache, Cancel
  <2>4. [link EXCEPT ![client] = "up"][c] # "new"
    BY <1>1 DEF IInv, ConnTypeOK
  <2>5. QED
    BY <1>1, <2>2, <2>3, <2>4 DEF ConnNext, connVars, LinkLost, LinkBack, BackoffLapses, RecentLapses
<1>2. IInv /\ [ConnNext]_connVars => [Goal]_connVars
  BY <1>1
<1>3. QED
  BY <1>2, Invariance, PTL DEF ConnSpec, NoAttemptInBackoff

-----------------------------------------------------------------------------
(* Connection implements Session.                                          *)

Trying(t) == callPc[t] \in {"connect", "pause"}

(* The count of attempts is that of a series under way, whose client is    *)
(* not connected; and self._client is not closed.                          *)
SeriesOK(t) ==
    /\ Trying(t) => attempt[t] \in 1..MaxAttempts /\ client \in Clients /\ link[client] = "new"
    /\ ~Trying(t) => attempt[t] = 0

SeriesInv ==
    /\ \A t \in Tasks : SeriesOK(t)
    /\ client \in Clients => link[client] # "closed"

PInv == IInv /\ SeriesInv

PolicyStep == SeriesInv' /\ [Policy!Next]_(Policy!vars)

(* Who holds the lock counts.                                              *)
LEMMA TriesOf ==
    ASSUME PInv
    PROVE  /\ Tries \in 0..MaxAttempts
           /\ clientLock = NoTask => Tries = 0
           /\ \A t \in Tasks : clientLock = t => Tries = attempt[t]
           /\ \A t \in Tasks : Trying(t) => clientLock = t
BY NoTaskAssumption, AttemptsAssumption
   DEF PInv, IInv, ConnTypeOK, ConnectingInv, ConnectingOK, Tries, Trying

(* A step that makes no attempt and leaves the client alone.               *)
LEMMA SeriesFrame ==
    ASSUME PInv, NEW t \in Tasks, NEW where,
           callPc' = [callPc EXCEPT ![t] = where], where \notin {"connect", "pause"},
           attempt'[t] = 0, \A u \in Tasks : u # t => attempt'[u] = attempt[u],
           UNCHANGED <<link, client>>
    PROVE  SeriesInv'
BY DEF PInv, IInv, ConnTypeOK, SeriesInv, SeriesOK, Trying

(* The end of a call, on whatever way: of its series too, if it has one.   *)
LEMMA EndingPolicy ==
    ASSUME PInv, NEW t \in Tasks, End(t) \/ NoConnection(t), UNCHANGED <<link, client, backoff>>
    PROVE  PolicyStep
<1>1. PICK where \in {"idle", "failed"} :
        /\ callPc' = [callPc EXCEPT ![t] = where]
        /\ attempt' = [attempt EXCEPT ![t] = 0]
        /\ clientLock' = Releases(t, clientLock)
  BY DEF NoConnection, End, GoToError, Become
<1>2. attempt'[t] = 0 /\ \A u \in Tasks : u # t => attempt'[u] = attempt[u]
  BY <1>1 DEF PInv, IInv, ConnTypeOK
<1>3. SeriesInv'
  BY <1>1, <1>2, SeriesFrame
<1>4. Status' = Status
  BY DEF Status
<1>5. CASE clientLock # t
  <2>1. Tries' = Tries
    BY <1>1, <1>2, <1>5 DEF Releases, Tries, PInv, IInv, ConnTypeOK
  <2>2. QED
    BY <1>3, <1>4, <2>1 DEF PolicyStep, Policy!vars
<1>6. CASE clientLock = t
  <2>1. Tries' = 0 /\ Tries = attempt[t]
    BY <1>1, <1>6, TriesOf DEF Releases, Tries
  <2>2. CASE ~Trying(t)
    BY <1>3, <1>4, <2>1, <2>2 DEF PolicyStep, Policy!vars, PInv, SeriesInv, SeriesOK
  <2>3. CASE Trying(t)
    <3>1. Tries > 0 /\ Status = "new"
      BY <2>1, <2>3, NoClientAssumption, AttemptsAssumption DEF PInv, SeriesInv, SeriesOK, Status
    <3>2. Policy!Abandon
      BY <1>4, <2>1, <3>1 DEF Policy!Abandon
    <3>3. QED
      BY <1>3, <3>2 DEF PolicyStep, Policy!Next
  <2>4. QED
    BY <2>2, <2>3
<1>7. QED
  BY <1>5, <1>6

(* A step of a call that is in no series and begins none.                  *)
LEMMA CallPolicy ==
    ASSUME PInv, NEW t \in Tasks, NEW where, ~Trying(t),
           callPc' = [callPc EXCEPT ![t] = where], where \notin {"connect", "pause"},
           clientLock' \in {clientLock, t}, clientLock' = t => clientLock \in {NoTask, t},
           UNCHANGED <<link, client, backoff, attempt>>
    PROVE  PolicyStep
<1>1. attempt[t] = 0
  BY DEF PInv, SeriesInv, SeriesOK
<1>2. SeriesInv'
  BY <1>1, SeriesFrame
<1>3. Status' = Status
  BY DEF Status
<1>4. Tries' = Tries
  BY <1>1, NoTaskAssumption, TriesOf DEF Tries
<1>5. QED
  BY <1>2, <1>3, <1>4 DEF PolicyStep, Policy!vars

(* An attempt is a try.                                                    *)
LEMMA AttemptPolicy ==
    ASSUME PInv, NEW t \in Tasks, NEW n \in 1..MaxAttempts, Attempt(t, n), n = attempt[t] + 1,
           clientLock \in {NoTask, t}, ~backoff
    PROVE  PolicyStep
<1>1. PICK c \in Clients :
        /\ link[c] = "closed"
        /\ link' = [Closed EXCEPT ![c] = "new"]
        /\ client' = c
        /\ clientLock' = t
        /\ attempt' = [attempt EXCEPT ![t] = n]
        /\ callPc' = [callPc EXCEPT ![t] = "connect"]
        /\ backoff' = backoff
  BY DEF Attempt, Become, timeVars
<1>2. link'[c] = "new" /\ c # client
  BY <1>1, ClosedLinks DEF PInv, IInv, SeriesInv
<1>3. Tries = attempt[t]
  <2>1. CASE clientLock = t
    BY <2>1, TriesOf
  <2>2. CASE clientLock = NoTask
    BY <2>2, TriesOf, NoTaskAssumption DEF PInv, SeriesInv, SeriesOK
  <2>3. QED
    BY <2>1, <2>2
<1>4. Tries' = n /\ Status' = "new"
  BY <1>1, <1>2, NoTaskAssumption, NoClientAssumption DEF Tries, Status, PInv, IInv, ConnTypeOK
<1>5. Tries \in 0..MaxAttempts /\ Tries < MaxAttempts
  BY <1>3, TriesOf, AttemptsAssumption
<1>6. Policy!Dial(c)
  BY <1>1, <1>2, <1>3, <1>4, <1>5 DEF Policy!Dial
<1>7. ASSUME NEW u \in Tasks PROVE SeriesOK(u)'
  <2>1. CASE u = t
    BY <1>1, <1>2, <2>1 DEF SeriesOK, Trying, PInv, IInv, ConnTypeOK
  <2>2. CASE u # t
    <3>1. ~Trying(u)
      BY <2>2, TriesOf, NoTaskAssumption
    <3>2. QED
      BY <1>1, <2>2, <3>1 DEF SeriesOK, Trying, PInv, IInv, ConnTypeOK, SeriesInv
  <2>3. QED
    BY <2>1, <2>2
<1>8. SeriesInv'
  BY <1>1, <1>2, <1>7 DEF SeriesInv
<1>9. QED
  BY <1>1, <1>6, <1>8 DEF PolicyStep, Policy!Next

(* get_client returns a client that was connected before.                  *)
LEMMA ServePolicy ==
    ASSUME PInv, NEW t \in Tasks, Serve(t), ~Trying(t), clientLock \in {NoTask, t},
           UNCHANGED <<link, client, backoff>>
    PROVE  PolicyStep
<1>1. /\ callPc' = [callPc EXCEPT ![t] = "request"]
      /\ attempt' = [attempt EXCEPT ![t] = 0]
      /\ clientLock' = NoTask
  BY DEF Serve, Become
<1>2. attempt[t] = 0 /\ attempt'[t] = 0 /\ \A u \in Tasks : u # t => attempt'[u] = attempt[u]
  BY <1>1 DEF PInv, IInv, ConnTypeOK, SeriesInv, SeriesOK
<1>3. SeriesInv'
  <2>1. "request" \notin {"connect", "pause"} /\ UNCHANGED <<link, client>>
    OBVIOUS
  <2>2. QED
    BY <1>1, <1>2, <2>1, SeriesFrame
<1>4. Tries = 0 /\ Tries' = 0 /\ Status' = Status
  BY <1>1, <1>2, TriesOf DEF Tries, Status
<1>5. QED
  BY <1>3, <1>4 DEF PolicyStep, Policy!vars

(* The connection is given up by who does not hold the lock: nobody does.  *)
LEMMA DropPolicy ==
    ASSUME PInv, NEW t \in Tasks, clientLock = NoTask, clientLock' = NoTask,
           client' = NoClient, backoff' \in {backoff, FALSE},
           NEW where, callPc' = [callPc EXCEPT ![t] = where], where \notin {"connect", "pause"},
           attempt' \in {attempt, [attempt EXCEPT ![t] = 0]}
    PROVE  PolicyStep
<1>1. \A u \in Tasks : ~Trying(u)
  BY TriesOf, NoTaskAssumption
<1>2. \A u \in Tasks : attempt[u] = 0 /\ attempt'[u] = 0
  BY <1>1 DEF PInv, IInv, ConnTypeOK, SeriesInv, SeriesOK
<1>3. SeriesInv'
  BY <1>1, <1>2, NoClientAssumption DEF SeriesInv, SeriesOK, Trying, PInv, IInv, ConnTypeOK
<1>4. Policy!Drop
  <2>1. Tries = 0 /\ Tries' = 0
    BY TriesOf DEF Tries
  <2>2. Status' = "none"
    BY DEF Status
  <2>3. QED
    BY <2>1, <2>2 DEF Policy!Drop
<1>5. QED
  BY <1>3, <1>4 DEF PolicyStep, Policy!Next

-----------------------------------------------------------------------------
(* Each action is a step of the policy, or none.                           *)

LEMMA LinkPolicy ==
    ASSUME PInv, NEW c \in Clients, LinkLost(c) \/ LinkBack(c)
    PROVE  PolicyStep
<1>1. /\ link[c] \in {"up", "lost"}
      /\ link' = [link EXCEPT ![c] = IF link[c] = "up" THEN "lost" ELSE "up"]
      /\ UNCHANGED <<client, clientLock, backoff, callPc, attempt>>
  BY DEF LinkLost, LinkBack, lockVars, timeVars, callVars
<1>2. c = client
  BY <1>1 DEF PInv, IInv, OneConnection
<1>3. SeriesInv'
  BY <1>1, <1>2 DEF SeriesInv, SeriesOK, Trying, PInv, IInv, ConnTypeOK
<1>4. Policy!Flip
  <2>1. Tries' = Tries
    BY <1>1 DEF Tries
  <2>2. Status = link[c] /\ Status' = link'[c]
    BY <1>1, <1>2, NoClientAssumption DEF Status
  <2>3. link'[c] = IF link[c] = "up" THEN "lost" ELSE "up"
    BY <1>1 DEF PInv, IInv, ConnTypeOK
  <2>4. QED
    BY <1>1, <2>1, <2>2, <2>3 DEF Policy!Flip
<1>5. QED
  BY <1>3, <1>4 DEF PolicyStep, Policy!Next

LEMMA TimePolicy ==
    ASSUME PInv, BackoffLapses \/ RecentLapses \/ \E t \in Tasks : TimersFromCache(t)
    PROVE  PolicyStep
<1>1. /\ UNCHANGED <<link, client, clientLock, callPc, attempt>>
      /\ backoff' = backoff \/ (backoff /\ backoff' = FALSE)
  BY DEF BackoffLapses, RecentLapses, TimersFromCache, lockVars, callVars
<1>2. SeriesInv' /\ Tries' = Tries /\ Status' = Status
  BY <1>1 DEF SeriesInv, SeriesOK, Trying, Tries, Status, PInv
<1>3. CASE backoff' = backoff
  BY <1>1, <1>2, <1>3 DEF PolicyStep, Policy!vars
<1>4. CASE backoff /\ backoff' = FALSE
  <2>1. Policy!Lapse
    BY <1>1, <1>2, <1>4 DEF Policy!Lapse
  <2>2. QED
    BY <1>2, <2>1 DEF PolicyStep, Policy!Next
<1>5. QED
  BY <1>1, <1>3, <1>4

LEMMA GetClientPolicy ==
    ASSUME PInv, NEW t \in Tasks, GetClient(t)
    PROVE  PolicyStep
<1>1. ~Trying(t) /\ clientLock = NoTask /\ attempt[t] = 0
  BY DEF GetClient, Trying, PInv, SeriesInv, SeriesOK
<1>2. CASE InBackoff(t)
  BY <1>2, EndingPolicy DEF InBackoff, timeVars
<1>3. CASE Reuse(t)
  BY <1>1, <1>3, ServePolicy DEF Reuse, timeVars
<1>4. CASE StartHealthCheck(t)
  <2>1. /\ callPc' = [callPc EXCEPT ![t] = "health"] /\ clientLock' = t
        /\ UNCHANGED <<link, client, backoff, attempt>>
    BY <1>4 DEF StartHealthCheck, Become, timeVars
  <2>2. "health" \notin {"connect", "pause"}
    OBVIOUS
  <2>3. QED
    BY <1>1, <2>1, <2>2, CallPolicy
<1>5. CASE StartConnecting(t)
  <2>1. 1 \in 1..MaxAttempts /\ 1 = attempt[t] + 1
    BY <1>1, AttemptsAssumption
  <2>2. QED
    BY <1>1, <1>5, <2>1, AttemptPolicy DEF StartConnecting
<1>6. QED
  BY <1>2, <1>3, <1>4, <1>5 DEF GetClient

LEMMA ConnectingPolicy ==
    ASSUME PInv, NEW t \in Tasks,
           Healthy(t) \/ Unhealthy(t) \/ Connects(t) \/ AttemptFails(t) \/ NextAttempt(t) \/ GiveUp(t)
    PROVE  PolicyStep
<1>1. clientLock = t /\ ~backoff
  BY DEF Healthy, Unhealthy, Connects, AttemptFails, NextAttempt, GiveUp, PInv, IInv, ConnectingInv, ConnectingOK
<1>2. Tries = attempt[t]
  BY <1>1, TriesOf
<1>3. CASE Healthy(t)
  BY <1>1, <1>3, ServePolicy DEF Healthy, Trying
<1>4. CASE Unhealthy(t)
  <2>1. 1 \in 1..MaxAttempts /\ 1 = attempt[t] + 1
    BY <1>4, AttemptsAssumption DEF Unhealthy, Trying, PInv, SeriesInv, SeriesOK
  <2>2. QED
    BY <1>1, <1>4, <2>1, AttemptPolicy DEF Unhealthy
<1>5. CASE Connects(t)
  <2>1. /\ attempt[t] \in 1..MaxAttempts /\ client \in Clients /\ link[client] = "new"
        /\ link' = [link EXCEPT ![client] = "up"] /\ backoff' = FALSE /\ client' = client
        /\ callPc' = [callPc EXCEPT ![t] = "request"]
        /\ attempt' = [attempt EXCEPT ![t] = 0]
        /\ clientLock' = NoTask
    BY <1>5 DEF Connects, Serve, Become, Trying, PInv, SeriesInv, SeriesOK
  <2>2. \A u \in Tasks : ~Trying(u)' /\ attempt'[u] = 0
    BY <1>1, <2>1, TriesOf DEF Trying, PInv, SeriesInv, SeriesOK, IInv, ConnTypeOK
  <2>3. SeriesInv'
    BY <2>1, <2>2 DEF SeriesInv, SeriesOK, PInv, IInv, ConnTypeOK
  <2>4. Status = "new" /\ Status' = "up" /\ Tries' = 0
    BY <2>1, NoClientAssumption DEF Status, Tries, PInv, IInv, ConnTypeOK
  <2>5. Policy!Established
    <3>1. backoff = FALSE
      BY <1>1 DEF PInv, IInv, ConnTypeOK
    <3>2. Tries > 0
      BY <1>2, <2>1, AttemptsAssumption
    <3>3. UNCHANGED <<client, backoff>>
      BY <2>1, <3>1
    <3>4. QED
      BY <2>4, <3>2, <3>3 DEF Policy!Established
  <2>6. QED
    BY <2>3, <2>5 DEF PolicyStep, Policy!Next
<1>6. CASE AttemptFails(t)
  <2>1. /\ callPc[t] = "connect" /\ callPc' = [callPc EXCEPT ![t] = "pause"]
        /\ UNCHANGED <<link, client, clientLock, backoff, attempt>>
    BY <1>6 DEF AttemptFails, Become, lockVars, timeVars
  <2>2. SeriesInv'
    BY <2>1 DEF SeriesInv, SeriesOK, Trying, PInv, IInv, ConnTypeOK
  <2>3. QED
    BY <2>1, <2>2 DEF PolicyStep, Policy!vars, Status, Tries
<1>7. CASE NextAttempt(t)
  <2>1. attempt[t] + 1 \in 1..MaxAttempts
    BY <1>7, AttemptsAssumption DEF NextAttempt, PInv, IInv, ConnTypeOK, ConnectingInv, ConnectingOK
  <2>2. QED
    BY <1>1, <1>7, <2>1, AttemptPolicy DEF NextAttempt
<1>8. CASE GiveUp(t)
  <2>1. /\ attempt[t] = MaxAttempts /\ client \in Clients /\ link[client] = "new"
        /\ backoff' = TRUE /\ UNCHANGED <<link, client>>
    BY <1>8 DEF GiveUp, Trying, PInv, SeriesInv, SeriesOK
  <2>2. PICK where \in {"idle", "failed"} :
          /\ callPc' = [callPc EXCEPT ![t] = where]
          /\ attempt' = [attempt EXCEPT ![t] = 0]
          /\ clientLock' = NoTask
    BY <1>1, <1>8 DEF GiveUp, NoConnection, End, GoToError, Become, Releases
  <2>3. attempt'[t] = 0 /\ \A u \in Tasks : u # t => attempt'[u] = attempt[u]
    BY <2>2 DEF PInv, IInv, ConnTypeOK
  <2>4. SeriesInv'
    BY <2>1, <2>2, <2>3, SeriesFrame
  <2>5. Status = "new" /\ Status' = "new" /\ Tries' = 0
    BY <2>1, <2>2, NoClientAssumption DEF Status, Tries
  <2>6. Policy!Refuse
    BY <1>2, <2>1, <2>5 DEF Policy!Refuse
  <2>7. QED
    BY <2>4, <2>6 DEF PolicyStep, Policy!Next
<1>9. QED
  BY <1>3, <1>4, <1>5, <1>6, <1>7, <1>8

LEMMA RequestPolicy ==
    ASSUME PInv, NEW t \in Tasks,
           Begin(t) \/ RmwTakesCache(t) \/ Answered(t) \/ Fails(t) \/ PollTakesCache(t) \/ CloseCache(t) \/ Cancel(t)
    PROVE  PolicyStep
<1>1. CASE End(t) \/ NoConnection(t)
  <2>1. UNCHANGED <<link, client, backoff>>
    BY DEF Begin, RmwTakesCache, Answered, Fails, PollTakesCache, CloseCache, Cancel, timeVars
  <2>2. QED
    BY <1>1, <2>1, EndingPolicy
<1>2. CASE ~End(t) /\ ~NoConnection(t)
  <2>1. PICK where \in {"get", "cache", "closing", "merge"} : callPc' = [callPc EXCEPT ![t] = where]
    BY <1>2 DEF Begin, RmwTakesCache, Answered, Fails, PollTakesCache, CloseCache, Cancel, Become
  <2>2. ~Trying(t) /\ UNCHANGED <<link, client, clientLock, backoff, attempt>>
    BY <1>2 DEF Begin, RmwTakesCache, Answered, Fails, PollTakesCache, CloseCache, Cancel, Trying, lockVars, timeVars
  <2>3. where \notin {"connect", "pause"} /\ (clientLock' = t => clientLock \in {NoTask, t})
    BY <2>2
  <2>4. QED
    BY <2>1, <2>2, <2>3, CallPolicy
<1>3. QED
  BY <1>1, <1>2

LEMMA ClosePolicy ==
    ASSUME PInv, NEW t \in Tasks, ErrorPath(t) \/ CloseClient(t)
    PROVE  PolicyStep
<1>1. PICK where \in {"get", "idle", "reset"} : callPc' = [callPc EXCEPT ![t] = where]
  BY DEF ErrorPath, CloseClient, End, Become
<1>2. /\ clientLock = NoTask /\ clientLock' = NoTask /\ client' = NoClient
      /\ backoff' \in {backoff, FALSE}
      /\ attempt' \in {attempt, [attempt EXCEPT ![t] = 0]}
  BY NoTaskAssumption DEF ErrorPath, CloseClient, End, Releases, lockVars, timeVars
<1>3. where \notin {"connect", "pause"}
  OBVIOUS
<1>4. QED
  BY <1>1, <1>2, <1>3, DropPolicy

LEMMA InitPolicy == ConnInit => PInv /\ Policy!Init
<1> SUFFICES ASSUME ConnInit PROVE PInv /\ Policy!Init
  OBVIOUS
<1>1. IInv
  BY InitIInv
<1>2. SeriesInv /\ Policy!Init
  BY NoClientAssumption DEF ConnInit, SeriesInv, SeriesOK, Trying, Policy!Init, Status, Tries
<1>3. QED
  BY <1>1, <1>2 DEF PInv

LEMMA NextPolicy == PInv /\ [ConnNext]_connVars => PInv' /\ [Policy!Next]_(Policy!vars)
<1> SUFFICES ASSUME PInv, [ConnNext]_connVars PROVE PInv' /\ [Policy!Next]_(Policy!vars)
  OBVIOUS
<1>1. IInv'
  BY NextIInv DEF PInv
<1>2. PolicyStep
  <2>1. CASE UNCHANGED connVars
    BY <2>1 DEF connVars, lockVars, timeVars, callVars, PolicyStep, Policy!vars, Status, Tries,
                PInv, SeriesInv, SeriesOK, Trying
  <2>2. CASE (\E c \in Clients : LinkLost(c) \/ LinkBack(c)) \/ BackoffLapses \/ RecentLapses
    BY <2>2, LinkPolicy, TimePolicy
  <2>3. ASSUME NEW t \in Tasks, Begin(t) \/ TimersFromCache(t) \/ LockStep(t) \/ OwnStep(t) \/ Cancel(t)
        PROVE  PolicyStep
    BY <2>3, TimePolicy, GetClientPolicy, ConnectingPolicy, RequestPolicy, ClosePolicy DEF LockStep, OwnStep
  <2>4. QED
    BY <2>1, <2>2, <2>3 DEF ConnNext
<1>3. QED
  BY <1>1, <1>2 DEF PInv, PolicyStep

(* Connection implements Session: whoever calls, fails, is cancelled or    *)
(* closes the client, get_client dials in series that nobody interrupts,   *)
(* and refuses only after a whole series has failed.                       *)
THEOREM PolicyKept == ConnSpec => KeepsPolicy
<1>1. ConnInit => PInv /\ Policy!Init
  BY InitPolicy
<1>2. PInv /\ [ConnNext]_connVars => PInv' /\ [Policy!Next]_(Policy!vars)
  BY NextPolicy
<1>3. QED
  BY <1>1, <1>2, PTL DEF ConnSpec, KeepsPolicy, Policy!Spec

-----------------------------------------------------------------------------
(* The order of the two locks.  The client lock is taken inside the cache  *)
(* lock and never the other way round, and no path leaves a lock behind.   *)

(* The holder of the client lock is in the middle of get_client; that of   *)
(* the cache lock is an RMW on its way to an answer, or to its error path. *)
LockInv ==
    /\ clientLock # NoTask => callPc[clientLock] \in {"health", "connect", "pause"}
    /\ cacheHolder # NoTask => /\ callPc[cacheHolder] \in {"get", "health", "connect", "pause", "request", "failed"}
                             /\ kind[cacheHolder] \in {"read", "write"}

LInv == ConnTypeOK /\ LockInv

(* A call that ends or goes to its error path gives back what it must.     *)
LEMMA EndLocks ==
    ASSUME LInv, NEW t \in Tasks, End(t)
    PROVE  LockInv'
BY NoTaskAssumption DEF LInv, ConnTypeOK, LockInv, End, Become, Releases

LEMMA NoConnectionLocks ==
    ASSUME LInv, NEW t \in Tasks, NoConnection(t),
           callPc[t] \in {"get", "health", "connect", "pause", "request"}
    PROVE  LockInv'
<1>1. CASE End(t)
  BY <1>1, EndLocks
<1>2. CASE GoToError(t)
  BY <1>2, NoTaskAssumption DEF LInv, ConnTypeOK, LockInv, GoToError, Become, Releases
<1>3. QED
  BY <1>1, <1>2 DEF NoConnection

(* A step within get_client, by a task that has the client lock or finds   *)
(* it free.                                                                *)
LEMMA ConnectingLocks ==
    ASSUME LInv, NEW t \in Tasks, NEW where \in {"health", "connect", "pause"},
           callPc[t] \in {"get", "health", "connect", "pause"},
           Become(t, where), clientLock' = t, UNCHANGED <<cacheHolder, kind>>
    PROVE  LockInv'
BY NoTaskAssumption DEF LInv, ConnTypeOK, LockInv, Become

LEMMA ServeLocks ==
    ASSUME LInv, NEW t \in Tasks, Serve(t), callPc[t] \in {"get", "health", "connect"}
    PROVE  LockInv'
BY NoTaskAssumption DEF LInv, ConnTypeOK, LockInv, Serve, Become

LEMMA GetClientLocks ==
    ASSUME LInv, NEW t \in Tasks, GetClient(t)
    PROVE  LockInv'
<1> USE DEF GetClient
<1>1. CASE InBackoff(t)
  BY <1>1, NoConnectionLocks DEF InBackoff
<1>2. CASE Reuse(t)
  BY <1>2, ServeLocks DEF Reuse
<1>3. CASE StartHealthCheck(t)
  BY <1>3, ConnectingLocks DEF StartHealthCheck
<1>4. CASE StartConnecting(t)
  BY <1>4, ConnectingLocks DEF StartConnecting, Attempt
<1>5. QED
  BY <1>1, <1>2, <1>3, <1>4

LEMMA OwnLocks ==
    ASSUME IInv, LInv, NEW t \in Tasks, OwnStep(t)
    PROVE  LockInv'
<1>1. CASE Healthy(t)
  BY <1>1, ServeLocks DEF Healthy
<1>2. CASE Connects(t)
  BY <1>2, ServeLocks DEF Connects
<1>3. CASE Unhealthy(t) \/ NextAttempt(t)
  BY <1>3, ConnectingLocks DEF Unhealthy, NextAttempt, Attempt
<1>4. CASE AttemptFails(t)
  BY <1>4, ConnectingLocks DEF AttemptFails, lockVars, IInv, ConnectingInv, ConnectingOK
<1>5. CASE GiveUp(t)
  BY <1>5, NoConnectionLocks DEF GiveUp
<1>6. CASE Fails(t)
  BY <1>6, NoConnectionLocks, EndLocks DEF Fails
<1>7. CASE Answered(t)
  <2>1. CASE End(t)
    BY <2>1, EndLocks
  <2>2. CASE ~End(t)
    <3>1. /\ callPc[t] = "request" /\ UNCHANGED lockVars
          /\ \/ kind[t] = "poll" /\ UNCHANGED kind
             \/ Become(t, "get") /\ kind' = [kind EXCEPT ![t] = "write"]
          /\ \E where \in {"merge", "get"} : Become(t, where)
      BY <1>7, <2>2 DEF Answered
    <3>2. QED
      BY <3>1, NoTaskAssumption DEF LInv, ConnTypeOK, LockInv, Become, lockVars
  <2>3. QED
    BY <2>1, <2>2
<1>8. QED
  BY <1>1, <1>2, <1>3, <1>4, <1>5, <1>6, <1>7 DEF OwnStep

(* The other steps that wait for a lock.  The error path of an RMW ends    *)
(* it; only a poll, which does not hold the cache lock, tries once more.   *)
LEMMA WaitingLocks ==
    ASSUME LInv, NEW t \in Tasks,
           RmwTakesCache(t) \/ PollTakesCache(t) \/ ErrorPath(t) \/ CloseClient(t) \/ CloseCache(t)
    PROVE  LockInv'
<1>1. CASE End(t)
  BY <1>1, EndLocks
<1>2. CASE RmwTakesCache(t)
  BY <1>2, NoTaskAssumption DEF RmwTakesCache, Become, LInv, ConnTypeOK, LockInv
<1>3. CASE CloseClient(t)
  BY <1>3, NoTaskAssumption DEF CloseClient, Become, lockVars, LInv, ConnTypeOK, LockInv
<1>4. CASE ErrorPath(t) /\ ~End(t)
  BY <1>4, NoTaskAssumption DEF ErrorPath, Become, lockVars, LInv, ConnTypeOK, LockInv
<1>5. QED
  BY <1>1, <1>2, <1>3, <1>4 DEF PollTakesCache, CloseCache

LEMMA NextLocks == IInv /\ LInv /\ [ConnNext]_connVars => LockInv'
<1> SUFFICES ASSUME IInv, LInv, [ConnNext]_connVars PROVE LockInv'
  OBVIOUS
<1>1. CASE UNCHANGED <<lockVars, callVars>>
  BY <1>1 DEF LInv, LockInv, lockVars, callVars
<1>2. CASE ~UNCHANGED <<lockVars, callVars>>
  <2>1. PICK t \in Tasks : Begin(t) \/ LockStep(t) \/ OwnStep(t) \/ Cancel(t)
    BY <1>2 DEF ConnNext, connVars, LinkLost, LinkBack, BackoffLapses, RecentLapses, TimersFromCache
  <2>2. CASE Begin(t)
    BY <2>2, NoTaskAssumption DEF Begin, Become, lockVars, LInv, ConnTypeOK, LockInv
  <2>3. CASE Cancel(t)
    BY <2>3, EndLocks DEF Cancel
  <2>4. QED
    BY <2>1, <2>2, <2>3, GetClientLocks, OwnLocks, WaitingLocks DEF LockStep
<1>3. QED
  BY <1>1, <1>2

LEMMA LockInvariance == ConnSpec => []LInv
<1>1. ConnInit => LInv
  BY InitIInv DEF IInv, LInv, ConnInit, LockInv
<1>2. IInv /\ LInv /\ [ConnNext]_connVars => LInv'
  BY NextIInv, NextLocks DEF IInv, LInv
<1>3. QED
  BY <1>1, <1>2, Invariance, PTL DEF ConnSpec

(* However many calls of any kind run at the same time, and wherever they  *)
(* fail or are cancelled, the two locks are never waited for in a circle   *)
(* and never left behind: the safety half of CallsEnd.                     *)
THEOREM NoCircles == ConnSpec => []NoCircularWait
<1>1. ASSUME LInv PROVE NoCircularWait
  <2> SUFFICES ASSUME NEW t \in Tasks, UnderWay(t), ~Proceeds(t)
               PROVE  \/ Proceeds(WaitsFor(t))
                      \/ UnderWay(WaitsFor(t)) /\ Proceeds(WaitsFor(WaitsFor(t)))
    BY DEF NoCircularWait
  <2>1. WaitsFor(t) # NoTask /\ WaitsFor(t) \in {clientLock, cacheHolder}
    BY DEF Proceeds, WaitsFor
  <2>2. clientLock # NoTask => Proceeds(clientLock)
    BY <1>1 DEF LInv, LockInv, ConnTypeOK, Proceeds, UnderWay, WaitsFor
  <2>3. cacheHolder # NoTask =>
            UnderWay(cacheHolder) /\ (Proceeds(cacheHolder) \/ WaitsFor(cacheHolder) = clientLock)
    BY <1>1 DEF LInv, LockInv, ConnTypeOK, Proceeds, UnderWay, WaitsFor
  <2>4. QED
    BY <2>1, <2>2, <2>3 DEF Proceeds
<1>2. QED
  BY <1>1, LockInvariance, PTL

=============================================================================
