------------------------ MODULE TelemetryFeedProofs -------------------------
(***************************************************************************)
(* Proofs about TelemetryFeed, for every number of WebSockets, runs of the *)
(* effect, frames and failures and every length of the history.            *)
(***************************************************************************)
EXTENDS TelemetryFeed, SequenceTheorems, FiniteSetTheorems, TLAPS

\* The hook's records while a page is being opened: TabType, and no page yet.
LooseTab ==
  [ws : [Sockets -> {"none", "connecting", "accepted", "open", "closing"}],
   owner : [Sockets -> Runs \union {0}],
   runs : Runs \union {0}, page : Runs \union {0},
   instance : [Runs -> Runs \union {0}],
   wsRef : [Runs -> Sockets \union {Null}],
   reconnectRef : [Runs -> Runs \union {0}],
   timers : SUBSET Runs]

\* A WebSocket that is in use has the run that made it as its owner, and no
\* other one and no pending timeout has that owner.
OwnersOK(t) ==
  /\ \A s \in Sockets : t.ws[s] = "none" <=> t.owner[s] = 0
  /\ \A s \in Sockets : t.owner[s] <= t.runs
  /\ \A e \in t.timers : e <= t.runs
  /\ \A s \in Sockets : t.owner[s] \notin t.timers
  /\ \A s, u \in Sockets : t.owner[s] # 0 /\ t.owner[s] = t.owner[u] => s = u

\* A ref holds a WebSocket of its own instance that is in use.
RefsOK(t) ==
  /\ \A e \in 1..t.runs : t.instance[e] \in Runs
  /\ \A i \in Runs : t.wsRef[i] # Null =>
       /\ t.owner[t.wsRef[i]] # 0
       /\ t.instance[t.owner[t.wsRef[i]]] = i

TabOK(t) == t \in LooseTab /\ OwnersOK(t) /\ RefsOK(t)

TabInv == TabOK(tab) /\ tab.runs \in Runs /\ tab.page \in 1..tab.runs

\* What is on its way to a WebSocket is consecutive; a client is fed up to the
\* latest frame; a WebSocket that is not in use has nothing.
Fed(s) ==
  /\ \A i \in 1..Len(pipe[s]) : pipe[s][i] = pipe[s][1] + i - 1
  /\ s \in clients =>
       /\ pipe[s] # <<>> => pipe[s][Len(pipe[s])] = latestFrame
       /\ seen[s] # 0 => seen[s] + Len(pipe[s]) = latestFrame
       /\ latestFrame # 0 => seen[s] # 0 \/ pipe[s] # <<>>
  /\ tab.ws[s] \in {"none", "connecting"} => seen[s] = 0
  /\ tab.ws[s] = "none" => pipe[s] = <<>> /\ s \notin clients

StreamInv ==
  /\ latestFrame \in {0, frame}
  /\ gateway = "down" => clients = {} /\ latestFrame = 0
  /\ \A s \in Sockets : Fed(s)

\* With one run of the effect, no WebSocket has yet to deliver a frame that is
\* older than one of the history.
OrderInv ==
  tab.runs = 1 =>
    /\ \A i, j \in 1..Len(history) : i <= j => history[i] <= history[j]
    /\ \A s \in Sockets : \A i \in 1..Len(history), j \in 1..Len(pipe[s]) :
         history[i] <= pipe[s][j]

DataTypes ==
  /\ strict \in BOOLEAN
  /\ gateway \in {"up", "down"}
  /\ frame \in 0..MaxFrames /\ latestFrame \in 0..frame
  /\ clients \subseteq Sockets
  /\ failures \in 0..MaxFailures
  /\ pipe \in [Sockets -> Seq(1..frame)] /\ seen \in [Sockets -> 0..frame]
  /\ connected \in BOOLEAN
  /\ history \in Seq(1..frame) /\ Len(history) <= MAX_HISTORY

Inv == DataTypes /\ TabInv /\ StreamInv /\ OrderInv
----------------------------------------------------------------------------
(* What the hook does to the tab keeps TabOK. *)

\* Nothing happens to a WebSocket in use except that it is closed.
Stable(t, u) ==
  \A s \in Sockets : t.ws[s] # "none" => u.ws[s] \in {t.ws[s], "closing"}

\* connect() of a run that has no WebSocket and no timeout.
LEMMA OpenSocketOK ==
  ASSUME NEW t, TabOK(t), NEW e \in 1..t.runs, e \in Runs,
         \A s \in Sockets : t.owner[s] # e, e \notin t.timers, Free(t) # {}
  PROVE LET u == OpenSocket(t, e)
        IN /\ TabOK(u) /\ Stable(t, u) /\ u.runs = t.runs /\ u.page = t.page
           /\ u.timers = t.timers /\ u.instance = t.instance
           /\ \E s \in Free(t) : Free(u) = Free(t) \ {s} /\ u.wsRef[t.instance[e]] = s
<1> DEFINE s == CHOOSE s \in Free(t) : TRUE
           u == OpenSocket(t, e)
           i == t.instance[e]
<1>s. s \in Free(t) OBVIOUS
<1> HIDE DEF s
<1>t. t \in LooseTab /\ s \in Sockets /\ t.ws[s] = "none"
  BY <1>s DEF TabOK, Free
<1>i. i \in Runs BY DEF TabOK, RefsOK
<1>u. u = [t EXCEPT !.ws[s] = "connecting", !.owner[s] = e, !.wsRef[i] = s]
  BY DEF OpenSocket, s
<1> HIDE DEF u, i
<1>1. /\ u.ws = [t.ws EXCEPT ![s] = "connecting"]
      /\ u.owner = [t.owner EXCEPT ![s] = e]
      /\ u.wsRef = [t.wsRef EXCEPT ![i] = s]
      /\ u.runs = t.runs /\ u.page = t.page /\ u.instance = t.instance
      /\ u.reconnectRef = t.reconnectRef /\ u.timers = t.timers
  BY <1>t, <1>u DEF LooseTab
<1>2. u \in LooseTab
  BY <1>t, <1>i, <1>u DEF LooseTab
<1>3. t.owner[s] = 0 BY <1>t DEF TabOK, OwnersOK
<1>4. OwnersOK(u)
  BY <1>t, <1>1, FeedAssumption DEF TabOK, OwnersOK, LooseTab, Runs
<1>5. RefsOK(u)
  <2>1. \A k \in 1..u.runs : u.instance[k] \in Runs BY <1>1 DEF TabOK, RefsOK
  <2>2. ASSUME NEW k \in Runs, u.wsRef[k] # Null
        PROVE u.owner[u.wsRef[k]] # 0 /\ u.instance[u.owner[u.wsRef[k]]] = k
    <3>1. CASE k = i
      <4>1. u.wsRef[k] = s BY <1>t, <1>1, <3>1 DEF LooseTab
      <4>2. u.owner[s] = e BY <1>t, <1>1 DEF LooseTab
      <4> QED BY <1>1, <3>1, <4>1, <4>2 DEF i
    <3>2. CASE k # i
      <4>1. u.wsRef[k] = t.wsRef[k] /\ t.wsRef[k] \in Sockets
        BY <1>t, <1>1, <2>2, <3>2 DEF LooseTab
      <4>2. t.owner[t.wsRef[k]] # 0 /\ t.instance[t.owner[t.wsRef[k]]] = k
        BY <2>2, <4>1 DEF TabOK, RefsOK
      <4>3. t.wsRef[k] # s BY <1>3, <4>2
      <4>4. u.owner[u.wsRef[k]] = t.owner[t.wsRef[k]]
        BY <1>t, <1>1, <4>1, <4>3 DEF LooseTab
      <4> QED BY <1>1, <4>2, <4>4
    <3> QED BY <3>1, <3>2
  <2> QED BY <2>1, <2>2 DEF RefsOK
<1>6. Stable(t, u) BY <1>t, <1>1 DEF Stable, LooseTab
<1>7. Free(u) = Free(t) \ {s} BY <1>t, <1>1 DEF Free, LooseTab
<1>8. u.wsRef[i] = s BY <1>t, <1>i, <1>1 DEF LooseTab
<1> QED BY <1>s, <1>1, <1>2, <1>4, <1>5, <1>6, <1>7, <1>8 DEF TabOK, u, i

\* A new run of the effect, for an instance.
LEMMA EffectOK ==
  ASSUME NEW t, TabOK(t), NEW i \in Runs, t.runs + 1 \in Runs, Free(t) # {}
  PROVE LET u == Effect(t, i)
        IN /\ TabOK(u) /\ Stable(t, u) /\ u.runs = t.runs + 1 /\ u.page = t.page
           /\ \E s \in Free(t) : Free(u) = Free(t) \ {s} /\ u.wsRef[i] = s
<1> DEFINE e == t.runs + 1
           v == [t EXCEPT !.runs = e, !.instance[e] = i]
<1>t. t \in LooseTab BY DEF TabOK
<1>r. t.runs \in Nat /\ e \in 1..e /\ e \notin 1..t.runs
  BY <1>t, FeedAssumption DEF LooseTab, Runs
<1>e. e \in Runs OBVIOUS
<1> HIDE DEF e
<1>v. v \in LooseTab BY <1>t, <1>e DEF LooseTab
<1>1. /\ v.ws = t.ws /\ v.owner = t.owner /\ v.wsRef = t.wsRef /\ v.page = t.page
      /\ v.timers = t.timers /\ v.runs = e
      /\ v.instance = [t.instance EXCEPT ![e] = i]
  BY <1>t DEF LooseTab
<1> HIDE DEF v
<1>2. \A s \in Sockets : t.owner[s] \in 0..t.runs
  BY <1>t, <1>r, FeedAssumption DEF TabOK, OwnersOK, LooseTab, Runs
<1>3. OwnersOK(v)
  <2>1. \A s \in Sockets : v.owner[s] <= v.runs BY <1>r, <1>1, <1>2 DEF e
  <2>2. \A k \in v.timers : k <= v.runs
    BY <1>t, <1>r, <1>1, FeedAssumption DEF TabOK, OwnersOK, LooseTab, Runs, e
  <2> QED BY <1>1, <2>1, <2>2 DEF TabOK, OwnersOK
<1>4. RefsOK(v)
  <2>1. ASSUME NEW k \in 1..v.runs PROVE v.instance[k] \in Runs
    <3>1. k = e \/ k \in 1..t.runs BY <1>r, <1>1 DEF e
    <3> QED BY <1>t, <1>e, <1>1, <3>1 DEF TabOK, RefsOK, LooseTab
  <2>2. ASSUME NEW k \in Runs, v.wsRef[k] # Null
        PROVE v.owner[v.wsRef[k]] # 0 /\ v.instance[v.owner[v.wsRef[k]]] = k
    <3>1. t.wsRef[k] \in Sockets BY <1>t, <1>1, <2>2 DEF LooseTab
    <3>2. t.owner[t.wsRef[k]] # 0 /\ t.instance[t.owner[t.wsRef[k]]] = k
      BY <1>1, <2>2 DEF TabOK, RefsOK
    <3>3. t.owner[t.wsRef[k]] # e BY <1>2, <1>r, <3>1 DEF e
    <3>4. v.instance[t.owner[t.wsRef[k]]] = t.instance[t.owner[t.wsRef[k]]]
      BY <1>t, <1>1, <3>1, <3>3 DEF LooseTab
    <3> QED BY <1>1, <3>2, <3>4
  <2> QED BY <2>1, <2>2 DEF RefsOK
<1>5. \A s \in Sockets : v.owner[s] # e BY <1>1, <1>2, <1>r DEF e
<1>6. e \notin v.timers
  BY <1>t, <1>r, <1>1, FeedAssumption DEF TabOK, OwnersOK, LooseTab, Runs, e
<1>7. Free(v) = Free(t) BY <1>1 DEF Free
<1>8. v.instance[e] = i BY <1>t, <1>e, <1>1 DEF LooseTab
<1>9. e \in 1..v.runs BY <1>1, <1>r
<1>10. TabOK(v) BY <1>v, <1>3, <1>4 DEF TabOK
<1>11. Effect(t, i) = OpenSocket(v, e) BY DEF Effect, v, e
<1>12. Stable(v, OpenSocket(v, e)) => Stable(t, OpenSocket(v, e)) BY <1>1 DEF Stable
<1>13. LET u == OpenSocket(v, e)
       IN /\ TabOK(u) /\ Stable(v, u) /\ u.runs = v.runs /\ u.page = v.page
          /\ \E s \in Free(v) : Free(u) = Free(v) \ {s} /\ u.wsRef[v.instance[e]] = s
  BY <1>e, <1>5, <1>6, <1>7, <1>9, <1>10, OpenSocketOK
<1> QED BY <1>1, <1>7, <1>8, <1>11, <1>12, <1>13 DEF e
\* The cleanup of an instance: one that is about to lose its page, or to run
\* its effect again.
LEMMA CleanupOK ==
  ASSUME NEW t, TabOK(t), NEW i \in Runs
  PROVE LET u == Cleanup(t, i)
        IN /\ TabOK(u) /\ Stable(t, u) /\ u.runs = t.runs /\ u.page = t.page
           /\ Free(u) = Free(t)
<1> DEFINE u == Cleanup(t, i)
           s == t.wsRef[i]
<1>t. t \in LooseTab BY DEF TabOK
<1>s. s = Null \/ s \in Sockets BY <1>t DEF LooseTab
<1>u. /\ u.ws = (IF s = Null THEN t.ws ELSE [t.ws EXCEPT ![s] = "closing"])
      /\ u.owner = t.owner /\ u.runs = t.runs /\ u.page = t.page
      /\ u.instance = t.instance /\ u.reconnectRef = t.reconnectRef
      /\ u.wsRef = [t.wsRef EXCEPT ![i] = Null]
      /\ u.timers = t.timers \ {t.reconnectRef[i]}
  BY <1>t DEF LooseTab, Cleanup
<1>1. u \in LooseTab
  <2> DEFINE w == IF s = Null THEN t.ws ELSE [t.ws EXCEPT ![s] = "closing"]
             d == t.timers \ {t.reconnectRef[i]}
  <2>1. /\ w \in [Sockets -> {"none", "connecting", "accepted", "open", "closing"}]
        /\ d \in SUBSET Runs
    BY <1>t DEF LooseTab
  <2>2. u = [t EXCEPT !.timers = d, !.ws = w, !.wsRef[i] = Null] BY DEF Cleanup
  <2> HIDE DEF w, d, u
  <2> QED BY <1>t, <2>1, <2>2 DEF LooseTab
<1> HIDE DEF u
<1>2. s # Null => t.owner[s] # 0 /\ t.ws[s] # "none"
  BY <1>t, <1>s DEF TabOK, OwnersOK, RefsOK
<1>3. \A r \in Sockets : u.ws[r] = t.ws[r] \/ (r = s /\ u.ws[r] = "closing")
  BY <1>t, <1>s, <1>u DEF LooseTab
<1>4. \A r \in Sockets : u.ws[r] = "none" <=> t.ws[r] = "none"
  BY <1>2, <1>3, FeedAssumption
<1>5. OwnersOK(u) BY <1>u, <1>4 DEF TabOK, OwnersOK
<1>6. ASSUME NEW k \in Runs, u.wsRef[k] # Null PROVE u.wsRef[k] = t.wsRef[k]
  BY <1>t, <1>u, <1>6 DEF LooseTab
<1>7. RefsOK(u) BY <1>u, <1>6 DEF TabOK, RefsOK
<1>8. Stable(t, u) BY <1>3 DEF Stable
<1>9. Free(u) = Free(t) BY <1>4 DEF Free
<1> QED BY <1>u, <1>1, <1>5, <1>7, <1>8, <1>9 DEF TabOK, u

\* onclose of a WebSocket in use.
LEMMA ClosedOK ==
  ASSUME NEW t, TabOK(t), NEW s \in Sockets, t.ws[s] # "none"
  PROVE LET u == Closed(t, s)
        IN /\ TabOK(u) /\ u.runs = t.runs /\ u.page = t.page
           /\ u.ws = [t.ws EXCEPT ![s] = "none"]
<1> DEFINE u == Closed(t, s)
           e == t.owner[s]
           i == t.instance[e]
<1>t. t \in LooseTab BY DEF TabOK
<1>e. e \in Runs /\ e <= t.runs /\ e \in 1..t.runs
  BY <1>t, FeedAssumption DEF TabOK, OwnersOK, LooseTab, Runs
<1>i. i \in Runs BY <1>e DEF TabOK, RefsOK
<1>u. u = [t EXCEPT !.ws[s] = "none", !.owner[s] = 0, !.wsRef[i] = Null,
                    !.timers = @ \union {e}, !.reconnectRef[i] = e]
  BY DEF Closed
<1> HIDE DEF u, e, i
<1>1. /\ u.ws = [t.ws EXCEPT ![s] = "none"]
      /\ u.owner = [t.owner EXCEPT ![s] = 0]
      /\ u.wsRef = [t.wsRef EXCEPT ![i] = Null]
      /\ u.timers = t.timers \union {e}
      /\ u.reconnectRef = [t.reconnectRef EXCEPT ![i] = e]
      /\ u.runs = t.runs /\ u.page = t.page /\ u.instance = t.instance
  BY <1>t, <1>u DEF LooseTab
<1>2. u \in LooseTab BY <1>t, <1>e, <1>i, <1>u DEF LooseTab
<1>3. \A r \in Sockets \ {s} : t.owner[r] # e
  BY <1>t, <1>e, FeedAssumption DEF TabOK, OwnersOK, Runs, e
<1>4. OwnersOK(u)
  <2>1. \A r \in Sockets : u.owner[r] = IF r = s THEN 0 ELSE t.owner[r]
    BY <1>t, <1>1 DEF LooseTab
  <2>2. 0 \notin t.timers /\ e # 0 BY <1>t, <1>e, FeedAssumption DEF LooseTab, Runs
  <2>3. \A r \in Sockets : u.owner[r] \notin u.timers
    BY <1>1, <1>3, <2>1, <2>2 DEF TabOK, OwnersOK
  <2>4. \A r \in Sockets : u.ws[r] = "none" <=> u.owner[r] = 0
    BY <1>t, <1>1, <2>1 DEF TabOK, OwnersOK, LooseTab
  <2>5. \A r \in Sockets : u.owner[r] <= u.runs
    BY <1>t, <1>1, <2>1, FeedAssumption DEF TabOK, OwnersOK, LooseTab, Runs
  <2>6. \A k \in u.timers : k <= u.runs BY <1>e, <1>1 DEF TabOK, OwnersOK
  <2>7. \A r, q \in Sockets : u.owner[r] # 0 /\ u.owner[r] = u.owner[q] => r = q
    BY <2>1 DEF TabOK, OwnersOK
  <2> QED BY <2>3, <2>4, <2>5, <2>6, <2>7 DEF OwnersOK
<1>5. ASSUME NEW k \in Runs, u.wsRef[k] # Null
      PROVE u.owner[u.wsRef[k]] # 0 /\ u.instance[u.owner[u.wsRef[k]]] = k
  <2>1. k # i /\ u.wsRef[k] = t.wsRef[k] /\ t.wsRef[k] \in Sockets
    BY <1>t, <1>1, <1>5 DEF LooseTab
  <2>2. t.owner[t.wsRef[k]] # 0 /\ t.instance[t.owner[t.wsRef[k]]] = k
    BY <1>5, <2>1 DEF TabOK, RefsOK
  <2>3. t.wsRef[k] # s BY <2>1, <2>2 DEF i, e
  <2> QED BY <1>t, <1>1, <2>1, <2>2, <2>3 DEF LooseTab
<1>6. RefsOK(u) BY <1>1, <1>5 DEF TabOK, RefsOK
<1> QED BY <1>1, <1>2, <1>4, <1>6 DEF TabOK, u

LEMMA FreeIsFinite ==
  ASSUME NEW t
  PROVE /\ IsFiniteSet(Free(t))
        /\ Cardinality(Free(t)) >= 1 => Free(t) # {}
        /\ Cardinality(Free(t)) >= 2 => \A s : Free(t) \ {s} # {}
<1>1. IsFiniteSet(Free(t)) BY FeedAssumption, FS_Subset DEF Free
<1>2. Cardinality({}) = 0 BY FS_EmptySet
<1>3. Cardinality(Free(t)) >= 1 => Free(t) # {} BY <1>2
<1>4. ASSUME NEW s, Free(t) \ {s} = {} PROVE Cardinality(Free(t)) <= 1
  <2>1. Free(t) = {} \/ Free(t) = {s} BY <1>4
  <2>2. Cardinality({s}) = 1 BY FS_Singleton
  <2> QED BY <1>2, <2>1, <2>2
<1>5. ASSUME Cardinality(Free(t)) >= 2, NEW s PROVE Free(t) \ {s} # {}
  <2>1. Cardinality(Free(t)) \in Nat BY <1>1, FS_CardinalityType
  <2> QED BY <1>4, <1>5, <2>1
<1> QED BY <1>1, <1>3, <1>5

LEMMA StableTransitive ==
  ASSUME NEW t, NEW u, NEW v, Stable(t, u), Stable(u, v)
  PROVE Stable(t, v)
BY DEF Stable

\* A page is mounted, when it has the runs and the WebSockets it needs.
LEMMA MountedOK ==
  ASSUME strict \in BOOLEAN, NEW t, TabOK(t), NEW i \in Runs,
         t.runs + (IF strict THEN 2 ELSE 1) <= MaxRuns,
         Cardinality(Free(t)) >= (IF strict THEN 2 ELSE 1)
  PROVE LET u == Mounted(t, i)
        IN /\ TabOK(u) /\ Stable(t, u) /\ u.page = i
           /\ u.runs = t.runs + (IF strict THEN 2 ELSE 1)
<1> DEFINE v == [t EXCEPT !.page = i]
           first == Effect(v, i)
<1>t. t \in LooseTab BY DEF TabOK
<1>r. t.runs \in Nat /\ t.runs + 1 \in Runs /\ (strict => t.runs + 1 + 1 \in Runs)
  BY <1>t, FeedAssumption DEF LooseTab, Runs
<1>c. Free(t) # {} /\ (strict => \A s : Free(t) \ {s} # {})
  <2>1. Cardinality(Free(t)) \in Nat BY FreeIsFinite, FS_CardinalityType
  <2> QED BY <2>1, FreeIsFinite
<1>v. /\ v \in LooseTab /\ v.page = i
      /\ v.ws = t.ws /\ v.owner = t.owner /\ v.wsRef = t.wsRef /\ v.runs = t.runs
      /\ v.timers = t.timers /\ v.instance = t.instance
  BY <1>t DEF LooseTab
<1> HIDE DEF v
<1>1. TabOK(v) /\ Stable(t, v) /\ Free(v) = Free(t)
  BY <1>v DEF TabOK, OwnersOK, RefsOK, Stable, Free
<1>2. /\ TabOK(first) /\ Stable(v, first) /\ first.runs = t.runs + 1
      /\ first.page = i
      /\ \E s \in Free(t) : Free(first) = Free(t) \ {s}
  BY <1>r, <1>c, <1>v, <1>1, EffectOK
<1>m. Mounted(t, i) = IF strict THEN Effect(Cleanup(first, i), i) ELSE first
  BY DEF Mounted, v
<1> HIDE DEF first
<1>3. CASE ~strict
  <2>1. Stable(t, first) BY <1>1, <1>2, StableTransitive
  <2> QED BY <1>2, <1>3, <1>m, <2>1
<1>4. CASE strict
  <2> DEFINE clean == Cleanup(first, i)
             last == Effect(clean, i)
  <2>1. /\ TabOK(clean) /\ Stable(first, clean) /\ clean.runs = t.runs + 1
        /\ clean.page = i /\ Free(clean) = Free(first)
    BY <1>2, CleanupOK
  <2>2. Free(clean) # {} BY <1>2, <1>4, <1>c, <2>1
  <2> HIDE DEF clean
  <2>3. /\ TabOK(last) /\ Stable(clean, last) /\ last.runs = t.runs + 1 + 1
        /\ last.page = i
    BY <1>4, <1>r, <2>1, <2>2, EffectOK
  <2>4. Mounted(t, i) = last BY <1>4, <1>m DEF clean
  <2> HIDE DEF last
  <2>5. Stable(t, last)
    BY <1>1, <1>2, <2>1, <2>3, StableTransitive
  <2> QED BY <1>4, <1>r, <2>3, <2>4, <2>5
<1> QED BY <1>3, <1>4
----------------------------------------------------------------------------
(* The steps. *)

LEMMA Widened ==
  ASSUME NEW m \in Nat, NEW n \in Nat, m <= n, NEW q \in Seq(1..m)
  PROVE q \in Seq(1..n) /\ Len(q) \in Nat /\ \A i \in 1..Len(q) : q[i] \in 1..m
<1>1. 1..m \subseteq 1..n OBVIOUS
<1>2. q \in Seq(1..n) BY <1>1, SeqMonotonic
<1> QED BY <1>2, LenProperties, ElementOfSeq

LEMMA InitInv == Init => Inv
<1> SUFFICES ASSUME Init PROVE Inv OBVIOUS
<1> USE DEF Init
<1>1. DataTypes
  <2>1. <<>> \in Seq(1..0) /\ Len(<<>>) = 0 BY EmptySeq
  <2>2. /\ frame \in 0..MaxFrames /\ latestFrame \in 0..frame /\ failures \in 0..MaxFailures
        /\ seen \in [Sockets -> 0..frame] /\ clients \subseteq Sockets
    BY FeedAssumption
  <2>3. pipe \in [Sockets -> Seq(1..frame)] BY <2>1
  <2>4. history \in Seq(1..frame) /\ Len(history) <= MAX_HISTORY
    BY <2>1, FeedAssumption
  <2>5. strict \in BOOLEAN /\ gateway \in {"up", "down"} /\ connected \in BOOLEAN
    OBVIOUS
  <2> QED BY <2>2, <2>3, <2>4, <2>5 DEF DataTypes
<1>2. TabInv
  <2>n. /\ NoTab.ws = [s \in Sockets |-> "none"]
        /\ NoTab.owner = [s \in Sockets |-> 0] /\ NoTab.runs = 0
        /\ NoTab.wsRef = [i \in Runs |-> Null] /\ NoTab.timers = {}
    BY DEF NoTab
  <2>1. NoTab \in LooseTab BY DEF NoTab, LooseTab
  <2>2. OwnersOK(NoTab) BY <2>n DEF OwnersOK
  <2>3. RefsOK(NoTab) BY <2>n, FeedAssumption DEF RefsOK, Runs
  <2>4. Free(NoTab) = Sockets BY <2>n DEF Free
  <2>5. 1 \in Runs /\ 0 + (IF strict THEN 2 ELSE 1) <= MaxRuns
    BY FeedAssumption DEF Runs
  <2>6. Cardinality(Free(NoTab)) >= (IF strict THEN 2 ELSE 1)
    <3>1. Cardinality(Sockets) \in Nat BY FeedAssumption, FS_CardinalityType
    <3>2. Cardinality(Sockets) >= 2 BY FeedAssumption
    <3>3. Cardinality(Sockets) >= (IF strict THEN 2 ELSE 1)
      BY <3>1, <3>2, SMT
    <3> QED BY <2>4, <3>3
  <2>7. TabOK(NoTab) /\ NoTab.runs = 0 BY <2>n, <2>1, <2>2, <2>3 DEF TabOK
  <2> HIDE DEF NoTab
  <2>8. strict \in BOOLEAN /\ NoTab.runs + (IF strict THEN 2 ELSE 1) <= MaxRuns
    BY <2>5, <2>7
  <2>9. /\ TabOK(tab) /\ tab.page = 1
        /\ tab.runs = NoTab.runs + (IF strict THEN 2 ELSE 1)
    <3>1. tab = Mounted(NoTab, 1) OBVIOUS
    <3> HIDE DEF Init
    <3> QED BY <2>5, <2>6, <2>7, <2>8, <3>1, MountedOK
  <2> QED BY <2>5, <2>7, <2>9, FeedAssumption DEF TabInv, Runs
<1>3. StreamInv BY EmptySeq DEF StreamInv, Fed
<1>4. OrderInv BY EmptySeq DEF OrderInv
<1> QED BY <1>1, <1>2, <1>3, <1>4 DEF Inv

\* A step of the hook that reads no event of the stream.
LEMMA HookStep ==
  ASSUME Inv, TabInv', Stable(tab, tab'), tab'.runs = 1 => tab.runs = 1,
         UNCHANGED <<strict, gatewayVars, failures, streamVars, history>>,
         connected' \in BOOLEAN
  PROVE Inv'
<1> USE DEF Inv, gatewayVars, streamVars
<1>1. DataTypes' BY DEF DataTypes
<1>2. StreamInv'
  <2>1. ASSUME NEW s \in Sockets PROVE Fed(s)'
    <3>1. Fed(s) BY DEF StreamInv
    <3>2. /\ tab'.ws[s] = "none" => tab.ws[s] = "none"
          /\ tab'.ws[s] = "connecting" => tab.ws[s] \in {"none", "connecting"}
      BY DEF Stable
    <3> QED BY <3>1, <3>2 DEF Fed
  <2> QED BY <2>1 DEF StreamInv
<1>3. OrderInv' BY DEF OrderInv
<1> QED BY <1>1, <1>2, <1>3

LEMMA NavigateInv ==
  ASSUME Inv, Navigate
  PROVE Inv'
<1> DEFINE left == Cleanup(tab, tab.page)
           n == IF strict THEN 2 ELSE 1
<1>1. TabOK(tab) /\ tab.page \in Runs /\ tab.runs \in Runs /\ tab.page <= tab.runs
  BY FeedAssumption DEF Inv, TabInv, Runs
<1>2. /\ TabOK(left) /\ Stable(tab, left) /\ left.runs = tab.runs
      /\ Free(left) = Free(tab)
  BY <1>1, CleanupOK
<1>3. /\ tab.runs + n <= MaxRuns /\ Cardinality(Free(left)) >= n
      /\ tab' = Mounted(left, tab.page + 1) /\ connected' = FALSE
      /\ UNCHANGED <<strict, gatewayVars, failures, streamVars, history>>
  BY DEF Navigate
<1>4. strict \in BOOLEAN BY DEF Inv, DataTypes
<1>5. tab.page + 1 \in Runs BY <1>1, <1>3, <1>4, FeedAssumption DEF Runs
<1> HIDE DEF left
<1>6. /\ TabOK(tab') /\ Stable(left, tab') /\ tab'.page = tab.page + 1
      /\ tab'.runs = left.runs + n
  BY <1>2, <1>3, <1>4, <1>5, MountedOK
<1>7. Stable(tab, tab') BY <1>2, <1>6, StableTransitive
<1>8. tab'.runs \in Runs /\ tab'.page \in 1..tab'.runs /\ tab'.runs # 1
  BY <1>1, <1>2, <1>3, <1>4, <1>6, FeedAssumption DEF Runs
<1>9. TabInv' BY <1>6, <1>8 DEF TabInv
<1> QED BY <1>3, <1>7, <1>8, <1>9, HookStep

LEMMA TimerFiresInv ==
  ASSUME Inv, NEW e \in Runs, TimerFires(e)
  PROVE Inv'
<1> DEFINE t == [tab EXCEPT !.timers = @ \ {e}]
<1>0. TabOK(tab) /\ tab \in LooseTab BY DEF Inv, TabInv, TabOK
<1>1. /\ e \in tab.timers /\ Free(tab) # {} /\ tab' = OpenSocket(t, e)
      /\ UNCHANGED <<strict, gatewayVars, failures, streamVars, store>>
  BY DEF TimerFires
<1>2. /\ t \in LooseTab /\ t.timers = tab.timers \ {e}
      /\ t.ws = tab.ws /\ t.owner = tab.owner /\ t.runs = tab.runs /\ t.page = tab.page
      /\ t.instance = tab.instance /\ t.wsRef = tab.wsRef
  BY <1>0 DEF LooseTab
<1> HIDE DEF t
<1>3. TabOK(t) BY <1>0, <1>2 DEF TabOK, OwnersOK, RefsOK
<1>4. Free(t) = Free(tab) /\ Stable(tab, t) BY <1>2 DEF Free, Stable
<1>5. /\ e \in 1..t.runs /\ e \notin t.timers
      /\ \A s \in Sockets : t.owner[s] # e
  BY <1>0, <1>1, <1>2, FeedAssumption DEF TabOK, OwnersOK, LooseTab, Runs
<1>6. /\ TabOK(tab') /\ Stable(t, tab') /\ tab'.runs = tab.runs
      /\ tab'.page = tab.page
  BY <1>1, <1>2, <1>3, <1>4, <1>5, OpenSocketOK
<1>7. TabInv' BY <1>6 DEF Inv, TabInv
<1>8. Stable(tab, tab') BY <1>4, <1>6, StableTransitive
<1>9. connected' \in BOOLEAN BY <1>1 DEF store, Inv, DataTypes
<1> QED BY <1>1, <1>6, <1>7, <1>8, <1>9, HookStep DEF store
\* History r is h, or h without its first frame, and then f.
IsNext(r, h, f) ==
  /\ Len(r) \in 1..MAX_HISTORY /\ r[Len(r)] = f
  /\ \E shift \in {0, 1} : \A i \in 1..(Len(r) - 1) :
       i + shift \in 1..Len(h) /\ r[i] = h[i + shift]

\* The store keeps the newest frames in their order, and the new one last.
LEMMA RememberOK ==
  ASSUME NEW T, NEW h \in Seq(T), Len(h) <= MAX_HISTORY, NEW f \in T
  PROVE Remember(h, f) \in Seq(T) /\ IsNext(Remember(h, f), h, f)
<1> DEFINE from == IF Len(h) < MAX_HISTORY THEN 1 ELSE Len(h) - MAX_HISTORY + 2
           kept == SubSeq(h, from, Len(h))
           shift == from - 1
<1>1. Len(h) \in Nat /\ \A i \in 1..Len(h) : h[i] \in T
  BY LenProperties, ElementOfSeq
<1>2. from \in {1, 2} /\ from <= Len(h) + 1 /\ Len(h) - from + 1 < MAX_HISTORY
  <2>1. MAX_HISTORY \in Nat /\ MAX_HISTORY >= 2 BY FeedAssumption
  <2>2. CASE Len(h) < MAX_HISTORY BY <1>1, <2>1, <2>2
  <2>3. CASE Len(h) = MAX_HISTORY
    <3>1. from = 2 BY <2>1, <2>3
    <3> HIDE DEF from
    <3> QED BY <1>1, <2>1, <2>3, <3>1
  <2> HIDE DEF from
  <2> QED BY <1>1, <2>1, <2>2, <2>3
<1> HIDE DEF from
<1>3. /\ kept \in Seq(T) /\ Len(kept) = Len(h) - from + 1
      /\ \A i \in 1..Len(kept) : kept[i] = h[i + shift]
  <2>1. \A i \in from..Len(h) : h[i] \in T BY <1>1, <1>2
  <2>2. /\ kept \in Seq(T)
        /\ Len(kept) = IF from <= Len(h) THEN Len(h) - from + 1 ELSE 0
        /\ \A i \in 1..(Len(h) - from + 1) : kept[i] = h[from + i - 1]
    BY <1>1, <1>2, <2>1, SubSeqProperties
  <2>3. Len(kept) = Len(h) - from + 1 BY <1>1, <1>2, <2>2
  <2>4. \A i \in 1..Len(kept) : from + i - 1 = i + shift BY <1>1, <1>2, <2>3
  <2> QED BY <2>2, <2>3, <2>4
<1> HIDE DEF kept
<1>4. Remember(h, f) = Append(kept, f) BY DEF Remember, kept, from
<1> DEFINE r == Append(kept, f)
<1>5. /\ r \in Seq(T) /\ Len(r) = Len(kept) + 1 /\ r[Len(kept) + 1] = f
      /\ \A i \in 1..Len(kept) : r[i] = kept[i]
  BY <1>3, AppendProperties
<1> HIDE DEF r
<1>6. Len(kept) \in Nat BY <1>3, LenProperties
<1>7. Len(r) \in 1..MAX_HISTORY /\ r[Len(r)] = f
  BY <1>1, <1>2, <1>3, <1>5, <1>6, FeedAssumption
<1>8. ASSUME NEW i \in 1..(Len(r) - 1)
      PROVE i + shift \in 1..Len(h) /\ r[i] = h[i + shift]
  <2>1. i \in 1..Len(kept) BY <1>5, <1>6
  <2>2. r[i] = h[i + shift] BY <1>3, <1>5, <2>1
  <2> QED BY <1>1, <1>2, <1>3, <2>1, <2>2
<1>9. shift \in {0, 1} BY <1>2
<1>10. IsNext(r, h, f) BY <1>7, <1>8, <1>9 DEF IsNext
<1> QED BY <1>4, <1>5, <1>10 DEF r
\* A WebSocket in use goes one state on, and nothing else in the tab changes.
LEMMA Advances ==
  ASSUME TabInv, NEW s \in Sockets, tab.ws[s] # "none",
         NEW w \in {"accepted", "open"}, tab' = [tab EXCEPT !.ws[s] = w]
  PROVE /\ TabInv' /\ tab'.runs = tab.runs
        /\ \A r \in Sockets : tab'.ws[r] = IF r = s THEN w ELSE tab.ws[r]
<1>1. tab \in LooseTab /\ TabOK(tab) BY DEF TabInv, TabOK
<1>3. /\ tab' \in LooseTab /\ tab'.ws = [tab.ws EXCEPT ![s] = w]
      /\ tab'.owner = tab.owner /\ tab'.runs = tab.runs /\ tab'.page = tab.page
      /\ tab'.instance = tab.instance /\ tab'.wsRef = tab.wsRef
      /\ tab'.timers = tab.timers
  BY <1>1 DEF LooseTab
<1>4. \A r \in Sockets : tab'.ws[r] = IF r = s THEN w ELSE tab.ws[r]
  BY <1>1, <1>3 DEF LooseTab
<1>5. OwnersOK(tab') BY <1>1, <1>3, <1>4 DEF TabOK, OwnersOK
<1>6. RefsOK(tab') BY <1>1, <1>3 DEF TabOK, RefsOK
<1>7. TabInv' BY <1>3, <1>5, <1>6 DEF TabInv, TabOK
<1> QED BY <1>3, <1>4, <1>7

LEMMA OnOpenInv ==
  ASSUME Inv, NEW s \in Sockets, OnOpen(s)
  PROVE Inv'
<1>1. /\ tab.ws[s] = "accepted" /\ tab' = [tab EXCEPT !.ws[s] = "open"]
      /\ connected' = TRUE
      /\ UNCHANGED <<strict, gatewayVars, failures, streamVars, history>>
  BY DEF OnOpen
<1>2. /\ TabInv' /\ tab'.runs = tab.runs
      /\ \A r \in Sockets : tab'.ws[r] = IF r = s THEN "open" ELSE tab.ws[r]
  BY <1>1, Advances DEF Inv
<1>3. DataTypes'
  BY <1>1 DEF Inv, DataTypes, gatewayVars, streamVars
<1>4. StreamInv'
  <2>1. ASSUME NEW r \in Sockets PROVE Fed(r)'
    BY <1>1, <1>2 DEF Inv, StreamInv, Fed, gatewayVars, streamVars
  <2> QED BY <1>1, <2>1 DEF Inv, StreamInv, gatewayVars
<1>5. OrderInv' BY <1>1, <1>2 DEF Inv, OrderInv, streamVars
<1> QED BY <1>2, <1>3, <1>4, <1>5 DEF Inv

\* What the types say of what is on its way to a WebSocket.
LEMMA PipeTypes ==
  ASSUME DataTypes, NEW s \in Sockets
  PROVE /\ frame \in Nat /\ latestFrame \in Nat /\ latestFrame <= frame
        /\ pipe[s] \in Seq(1..frame) /\ Len(pipe[s]) \in Nat
        /\ \A i \in 1..Len(pipe[s]) : pipe[s][i] \in 1..frame
        /\ pipe[s] # <<>> <=> Len(pipe[s]) # 0
        /\ seen[s] \in 0..frame
<1>1. /\ frame \in Nat /\ latestFrame \in Nat /\ latestFrame <= frame
      /\ seen[s] \in 0..frame /\ pipe[s] \in Seq(1..frame)
  BY FeedAssumption DEF DataTypes
<1> QED BY <1>1, LenProperties, ElementOfSeq, EmptySeq

LEMMA GreetInv ==
  ASSUME Inv, NEW s \in Sockets, Greet(s)
  PROVE Inv'
<1> DEFINE first == IF latestFrame = 0 THEN <<>> ELSE <<latestFrame>>
<1> USE DEF Inv
<1>1. /\ tab.ws[s] = "connecting" /\ gateway = "up"
      /\ tab' = [tab EXCEPT !.ws[s] = "accepted"]
      /\ clients' = clients \union {s} /\ pipe' = [pipe EXCEPT ![s] = first]
      /\ UNCHANGED <<strict, gateway, frame, latestFrame, failures, seen, store>>
  BY DEF Greet
<1>t. /\ TabInv' /\ tab'.runs = tab.runs
      /\ \A r \in Sockets : tab'.ws[r] = IF r = s THEN "accepted" ELSE tab.ws[r]
  BY <1>1, Advances
<1>2. /\ frame \in Nat /\ latestFrame \in 0..frame /\ latestFrame \in {0, frame}
  BY PipeTypes DEF DataTypes, StreamInv
<1>3. /\ first \in Seq(1..frame) /\ Len(first) \in {0, 1}
      /\ first = <<>> <=> latestFrame = 0
      /\ \A i \in 1..Len(first) : i = 1 /\ first[i] = latestFrame
      /\ latestFrame # 0 => Len(first) = 1
      /\ latestFrame = 0 => Len(first) = 0
  <2>1. CASE latestFrame = 0 BY <2>1, EmptySeq
  <2>2. CASE latestFrame # 0
    <3>1. first = <<latestFrame>> /\ latestFrame \in 1..frame BY <1>2, <2>2
    <3> HIDE DEF first
    <3> QED BY <2>2, <3>1
  <2> QED BY <2>1, <2>2
<1> HIDE DEF first
<1>4. \A r \in Sockets : pipe'[r] = IF r = s THEN first ELSE pipe[r]
  BY <1>1 DEF DataTypes
<1>5. DataTypes'
  <2>1. pipe' \in [Sockets -> Seq(1..frame)] BY <1>1, <1>3 DEF DataTypes
  <2>2. clients' \subseteq Sockets BY <1>1 DEF DataTypes
  <2> QED BY <1>1, <2>1, <2>2 DEF DataTypes, store
<1>7. StreamInv'
  <2>1. ASSUME NEW r \in Sockets PROVE Fed(r)'
    <3>1. CASE r = s
      <4>1. pipe'[s] = first /\ seen'[s] = 0 /\ tab'.ws[s] = "accepted"
        BY <1>1, <1>4, <1>t, <3>1 DEF StreamInv, Fed
      <4>2. latestFrame' = latestFrame BY <1>1
      <4> QED BY <1>2, <1>3, <3>1, <4>1, <4>2 DEF Fed
    <3>2. CASE r # s
      <4>1. pipe'[r] = pipe[r] /\ (r \in clients' <=> r \in clients)
        BY <1>1, <1>4, <3>2
      <4>2. tab'.ws[r] = tab.ws[r] BY <1>t, <3>2
      <4> QED BY <1>1, <4>1, <4>2 DEF StreamInv, Fed
    <3> QED BY <3>1, <3>2
  <2> QED BY <1>1, <2>1 DEF StreamInv
<1>8. OrderInv'
  <2> SUFFICES ASSUME tab.runs = 1 PROVE OrderInv' BY <1>t DEF OrderInv
  <2>1. ASSUME NEW r \in Sockets, NEW i \in 1..Len(history), NEW j \in 1..Len(pipe'[r])
        PROVE history[i] <= pipe'[r][j]
    <3>1. CASE r = s
      <4>1. pipe'[r][j] = latestFrame /\ latestFrame = frame
        BY <1>2, <1>3, <1>4, <2>1, <3>1
      <4>2. history[i] \in 1..frame BY <2>1, ElementOfSeq DEF DataTypes
      <4> QED BY <1>2, <4>1, <4>2
    <3>2. CASE r # s BY <1>4, <2>1, <3>2 DEF OrderInv
    <3> QED BY <3>1, <3>2
  <2> QED BY <1>1, <2>1 DEF OrderInv, store
<1> QED BY <1>5, <1>t, <1>7, <1>8

LEMMA GatewayInv ==
  ASSUME Inv, GatewayStops \/ GatewayStarts \/ \E s \in Sockets : Terminate(s)
  PROVE Inv'
<1> USE DEF Inv, streamVars, store
<1>1. /\ UNCHANGED <<strict, frame, tab, pipe, seen, connected, history>>
      /\ clients' \subseteq clients /\ latestFrame' \in {0, latestFrame}
      /\ gateway' \in {"up", "down"} /\ failures' \in 0..MaxFailures
      /\ clients' = {} \/ latestFrame' = latestFrame
      /\ gateway' = "down" => clients' = {} /\ latestFrame' = 0
  <2>1. CASE GatewayStops
    BY <2>1, FeedAssumption DEF GatewayStops, DataTypes
  <2>2. CASE GatewayStarts
    BY <2>2, FeedAssumption DEF GatewayStarts, DataTypes, StreamInv
  <2>3. ASSUME NEW s \in Sockets, Terminate(s)
        PROVE /\ UNCHANGED <<strict, frame, tab, pipe, seen, connected, history>>
              /\ clients' \subseteq clients /\ latestFrame' = latestFrame
              /\ gateway' = gateway /\ failures' \in 0..MaxFailures
    BY <2>3, FeedAssumption DEF Terminate, DataTypes
  <2>4. ASSUME NEW s \in Sockets, Terminate(s)
        PROVE gateway' = "down" => clients' = {} /\ latestFrame' = 0
    BY <2>3, <2>4 DEF StreamInv
  <2> QED BY <2>1, <2>2, <2>3, <2>4 DEF DataTypes
<1>2. DataTypes' BY <1>1, FeedAssumption DEF DataTypes
<1>3. TabInv' BY <1>1 DEF TabInv
<1>4. StreamInv'
  <2>1. ASSUME NEW s \in Sockets PROVE Fed(s)' BY <1>1 DEF StreamInv, Fed
  <2> QED BY <1>1, <2>1 DEF StreamInv
<1>5. OrderInv' BY <1>1 DEF OrderInv
<1> QED BY <1>2, <1>3, <1>4, <1>5
LEMMA BroadcastFrameInv ==
  ASSUME Inv, BroadcastFrame
  PROVE Inv'
<1> DEFINE f == frame + 1
<1> USE DEF Inv
<1>1. /\ gateway = "up" /\ frame < MaxFrames /\ frame' = f /\ latestFrame' = f
      /\ pipe' = [s \in Sockets |-> IF s \in clients THEN Append(pipe[s], f)
                                    ELSE pipe[s]]
      /\ UNCHANGED <<strict, gateway, clients, failures, tab, seen, store>>
  BY DEF BroadcastFrame
<1>2. frame \in Nat /\ f \in 1..MaxFrames /\ f \in Nat /\ latestFrame \in {0, frame}
  BY <1>1, FeedAssumption DEF DataTypes, StreamInv
<1>3. ASSUME NEW s \in Sockets
      PROVE /\ pipe[s] \in Seq(1..f)
            /\ s \notin clients => pipe'[s] = pipe[s]
            /\ s \in clients => /\ pipe'[s] \in Seq(1..f) /\ pipe'[s] # <<>>
                                /\ Len(pipe'[s]) = Len(pipe[s]) + 1
                                /\ \A i \in 1..Len(pipe[s]) : pipe'[s][i] = pipe[s][i]
                                /\ pipe'[s][Len(pipe[s]) + 1] = f
  <2>1. pipe[s] \in Seq(1..frame) BY PipeTypes
  <2>2. pipe[s] \in Seq(1..f) BY <1>2, <2>1, Widened
  <2>3. pipe'[s] = IF s \in clients THEN Append(pipe[s], f) ELSE pipe[s] BY <1>1
  <2>4. f \in 1..f BY <1>2
  <2> HIDE DEF f
  <2>5. LET a == Append(pipe[s], f)
        IN /\ a \in Seq(1..f) /\ a # <<>> /\ Len(a) = Len(pipe[s]) + 1
           /\ \A i \in 1..Len(pipe[s]) : a[i] = pipe[s][i]
           /\ a[Len(pipe[s]) + 1] = f
    BY <2>2, <2>4, AppendProperties
  <2>6. CASE s \in clients
    <3>1. pipe'[s] = Append(pipe[s], f) BY <2>3, <2>6
    <3> QED BY <2>2, <2>5, <2>6, <3>1
  <2>7. CASE s \notin clients BY <2>2, <2>3, <2>7
  <2> QED BY <2>6, <2>7
<1> HIDE DEF f
<1>4. DataTypes'
  <2>1. pipe' \in [Sockets -> Seq(1..f)]
    <3>1. \A s \in Sockets : pipe'[s] \in Seq(1..f) BY <1>3
    <3>2. pipe' = [s \in Sockets |-> pipe'[s]] BY <1>1
    <3> QED BY <3>1, <3>2
  <2>2. seen' \in [Sockets -> 0..f]
    <3>1. 0..frame \subseteq 0..f BY <1>2 DEF f
    <3> QED BY <1>1, <3>1 DEF DataTypes
  <2>3. history \in Seq(1..f)
    <3>1. history \in Seq(1..frame) /\ frame <= f BY <1>2 DEF DataTypes, f
    <3> QED BY <1>2, <3>1, Widened
  <2>4. frame' \in 0..MaxFrames /\ latestFrame' \in 0..frame'
    BY <1>1, <1>2, FeedAssumption
  <2> QED BY <1>1, <2>1, <2>2, <2>3, <2>4 DEF DataTypes, store
<1>5. TabInv' BY <1>1 DEF TabInv
<1>6. StreamInv'
  <2>1. ASSUME NEW s \in Sockets PROVE Fed(s)'
    <3>1. CASE s \notin clients
      <4>1. pipe'[s] = pipe[s] /\ s \notin clients' /\ Fed(s)
        BY <1>1, <1>3, <3>1 DEF StreamInv
      <4> QED BY <1>1, <4>1 DEF Fed
    <3>2. CASE s \in clients
      <4>1. Fed(s) /\ Len(pipe[s]) \in Nat /\ seen[s] \in 0..frame
        BY PipeTypes DEF StreamInv
      <4>2. tab.ws[s] # "none" BY <3>2, <4>1 DEF Fed
      <4>3. pipe[s] # <<>> =>
              Len(pipe[s]) # 0 /\ pipe[s][Len(pipe[s])] \in 1..frame
        BY PipeTypes
      <4>4. pipe[s] # <<>> => pipe[s][Len(pipe[s])] = frame
        BY <1>2, <3>2, <4>1, <4>3 DEF Fed
      <4>5. pipe[s] = <<>> => Len(pipe[s]) = 0 BY PipeTypes
      <4>6. \A i \in 1..Len(pipe'[s]) : pipe'[s][i] = pipe'[s][1] + i - 1
        <5>1. CASE pipe[s] = <<>>
          <6>1. Len(pipe'[s]) = 1 /\ pipe'[s][1] = f
            <7>1. /\ Len(pipe'[s]) = Len(pipe[s]) + 1
                  /\ pipe'[s][Len(pipe[s]) + 1] = f
              BY <1>3, <3>2
            <7>2. Len(pipe[s]) + 1 = 1 BY <4>5, <5>1
            <7> QED BY <7>1, <7>2
          <6> QED BY <1>2, <6>1
        <5>2. CASE pipe[s] # <<>>
          <6>1. 1 \in 1..Len(pipe[s]) /\ Len(pipe[s]) \in 1..Len(pipe[s])
            BY <4>1, <4>3, <5>2
          <6>2. \A i \in 1..Len(pipe[s]) : pipe[s][i] = pipe[s][1] + i - 1
            BY <4>1 DEF Fed
          <6>3. pipe[s][1] \in 1..frame BY <6>1, PipeTypes
          <6>4. pipe[s][1] + Len(pipe[s]) - 1 = frame BY <4>4, <5>2, <6>1, <6>2
          <6>5. pipe'[s][1] = pipe[s][1] BY <1>3, <3>2, <6>1
          <6>6. ASSUME NEW i \in 1..Len(pipe'[s]) PROVE pipe'[s][i] = pipe'[s][1] + i - 1
            <7>1. CASE i \in 1..Len(pipe[s]) BY <1>3, <3>2, <6>2, <6>5, <7>1
            <7>2. CASE i = Len(pipe[s]) + 1
              <8>1. pipe'[s][i] = frame + 1 BY <1>3, <3>2, <7>2 DEF f
              <8>2. pipe[s][1] \in Nat BY <6>3
              <8> QED BY <1>2, <4>1, <6>4, <6>5, <7>2, <8>1, <8>2
            <7>3. i \in 1..Len(pipe[s]) \/ i = Len(pipe[s]) + 1
              BY <1>3, <3>2, <4>1, <6>6
            <7> QED BY <7>1, <7>2, <7>3
          <6> QED BY <6>6
        <5> QED BY <5>1, <5>2
      <4>7. pipe'[s][Len(pipe'[s])] = latestFrame' BY <1>1, <1>3, <3>2
      <4>8. seen[s] # 0 => seen[s] + Len(pipe'[s]) = f
        <5>1. seen[s] # 0 => seen[s] + Len(pipe[s]) = frame
          BY <1>2, <3>2, <4>1 DEF Fed
        <5> QED BY <1>2, <1>3, <3>2, <4>1, <5>1 DEF f
      <4>9. tab'.ws[s] \in {"none", "connecting"} => seen'[s] = 0
        BY <1>1, <4>1 DEF Fed
      <4>10. pipe'[s] # <<>> /\ seen' = seen /\ latestFrame' = f /\ tab' = tab
        BY <1>1, <1>3, <3>2
      <4> QED BY <4>2, <4>6, <4>7, <4>8, <4>9, <4>10 DEF Fed
    <3> QED BY <3>1, <3>2
  <2> QED BY <1>1, <2>1 DEF StreamInv
<1>7. OrderInv'
  <2> SUFFICES ASSUME tab.runs = 1 PROVE OrderInv' BY <1>1 DEF OrderInv
  <2>1. ASSUME NEW s \in Sockets, NEW i \in 1..Len(history), NEW j \in 1..Len(pipe'[s])
        PROVE history[i] <= pipe'[s][j]
    <3>1. CASE j \in 1..Len(pipe[s])
      <4>1. pipe'[s][j] = pipe[s][j] BY <1>3, <3>1
      <4> QED BY <2>1, <3>1, <4>1 DEF OrderInv
    <3>2. CASE j \notin 1..Len(pipe[s])
      <4>1. s \in clients /\ j = Len(pipe[s]) + 1
        BY <1>3, <2>1, <3>2, PipeTypes
      <4>2. pipe'[s][j] = frame + 1 BY <1>3, <4>1 DEF f
      <4>3. history[i] \in 1..frame BY <2>1, ElementOfSeq DEF DataTypes
      <4> QED BY <1>2, <4>2, <4>3
    <3> QED BY <3>1, <3>2
  <2> QED BY <1>1, <2>1 DEF OrderInv, store
<1> QED BY <1>4, <1>5, <1>6, <1>7

LEMMA OnCloseInv ==
  ASSUME Inv, NEW s \in Sockets, OnClose(s)
  PROVE Inv'
<1> USE DEF Inv
<1>1. /\ tab' = Closed(tab, s) /\ connected' = FALSE /\ clients' = clients \ {s}
      /\ pipe' = [pipe EXCEPT ![s] = <<>>] /\ seen' = [seen EXCEPT ![s] = 0]
      /\ UNCHANGED <<strict, gateway, frame, latestFrame, failures, history>>
  BY DEF OnClose
<1>2. tab.ws[s] # "none"
  <2>1. s \notin clients \/ tab.ws[s] # "none" BY DEF StreamInv, Fed
  <2> QED BY DEF OnClose, IsEnding
<1>3. TabOK(tab) /\ tab.ws \in [Sockets -> {"none", "connecting", "accepted", "open", "closing"}]
  BY DEF TabInv, TabOK, LooseTab
<1>4. /\ TabOK(tab') /\ tab'.runs = tab.runs /\ tab'.page = tab.page
      /\ tab'.ws = [tab.ws EXCEPT ![s] = "none"]
  BY <1>1, <1>2, <1>3, ClosedOK
<1>5. TabInv' BY <1>4 DEF TabInv
<1>6. frame \in Nat /\ <<>> \in Seq(1..frame) /\ Len(<<>>) = 0
  BY EmptySeq, PipeTypes
<1>7. DataTypes'
  <2>1. pipe' \in [Sockets -> Seq(1..frame)] /\ seen' \in [Sockets -> 0..frame]
    BY <1>1, <1>6 DEF DataTypes
  <2> QED BY <1>1, <2>1 DEF DataTypes
<1>8. \A r \in Sockets : /\ pipe'[r] = IF r = s THEN <<>> ELSE pipe[r]
                         /\ seen'[r] = IF r = s THEN 0 ELSE seen[r]
                         /\ tab'.ws[r] = IF r = s THEN "none" ELSE tab.ws[r]
  BY <1>1, <1>3, <1>4 DEF DataTypes
<1>9. StreamInv'
  <2>1. ASSUME NEW r \in Sockets PROVE Fed(r)'
    <3>1. CASE r = s
      <4>1. pipe'[r] = <<>> /\ seen'[r] = 0 /\ r \notin clients' BY <1>1, <1>8, <3>1
      <4> QED BY <1>6, <4>1 DEF Fed
    <3>2. CASE r # s
      <4>1. /\ pipe'[r] = pipe[r] /\ seen'[r] = seen[r] /\ tab'.ws[r] = tab.ws[r]
            /\ r \in clients' <=> r \in clients
        BY <1>1, <1>8, <3>2
      <4> QED BY <1>1, <4>1 DEF StreamInv, Fed
    <3> QED BY <3>1, <3>2
  <2> QED BY <1>1, <2>1 DEF StreamInv
<1>10. OrderInv'
  <2>1. ASSUME NEW r \in Sockets
        PROVE \A j \in 1..Len(pipe'[r]) : j \in 1..Len(pipe[r]) /\ pipe'[r][j] = pipe[r][j]
    BY <1>6, <1>8
  <2> QED BY <1>1, <1>4, <2>1 DEF OrderInv
<1> QED BY <1>5, <1>7, <1>9, <1>10
LEMMA OnMessageInv ==
  ASSUME Inv, NEW s \in Sockets, OnMessage(s)
  PROVE Inv'
<1> DEFINE f == pipe[s][1]
           q == Tail(pipe[s])
           h == Remember(history, f)
<1> USE DEF Inv
<1>0. Head(pipe[s]) = f /\ pipe[s] # <<>>
  <2>1. Head(pipe[s]) = pipe[s][1] OBVIOUS
  <2> QED BY <2>1 DEF OnMessage
<1>1. /\ tab.ws[s] = "open" /\ history' = h
      /\ seen' = [seen EXCEPT ![s] = f] /\ pipe' = [pipe EXCEPT ![s] = q]
      /\ UNCHANGED <<strict, gatewayVars, failures, tab, connected>>
  BY <1>0 DEF OnMessage
<1>2. /\ frame \in Nat /\ pipe[s] \in Seq(1..frame) /\ Len(pipe[s]) \in Nat \ {0}
      /\ \A i \in 1..Len(pipe[s]) : pipe[s][i] \in 1..frame
  BY <1>0, PipeTypes
<1>3. f \in 1..frame BY <1>2
<1>4. /\ q \in Seq(1..frame) /\ Len(q) = Len(pipe[s]) - 1
      /\ \A i \in 1..Len(q) : q[i] = pipe[s][i + 1]
  BY <1>0, <1>2, HeadTailProperties
<1>5. history \in Seq(1..frame) /\ Len(history) <= MAX_HISTORY BY DEF DataTypes
<1>6. /\ h \in Seq(1..frame) /\ Len(h) \in 1..MAX_HISTORY /\ h[Len(h)] = f
      /\ \E shift \in {0, 1} : \A i \in 1..(Len(h) - 1) :
           i + shift \in 1..Len(history) /\ h[i] = history[i + shift]
  <2> HIDE DEF f
  <2>1. h \in Seq(1..frame) /\ IsNext(h, history, f) BY <1>3, <1>5, RememberOK
  <2> QED BY <2>1 DEF IsNext
<1> HIDE DEF f, q, h
<1>7. \A r \in Sockets : /\ pipe'[r] = IF r = s THEN q ELSE pipe[r]
                         /\ seen'[r] = IF r = s THEN f ELSE seen[r]
  BY <1>1 DEF DataTypes
<1>8. DataTypes'
  <2>1. pipe' \in [Sockets -> Seq(1..frame)] BY <1>1, <1>4 DEF DataTypes
  <2>2. seen' \in [Sockets -> 0..frame]
    <3>1. f \in 0..frame BY <1>2, <1>3
    <3> QED BY <1>1, <3>1 DEF DataTypes
  <2>3. Len(h) <= MAX_HISTORY BY <1>6, FeedAssumption
  <2> QED BY <1>1, <1>6, <2>1, <2>2, <2>3 DEF DataTypes, gatewayVars
<1>9. TabInv' BY <1>1 DEF TabInv
<1>10. \A i \in 1..Len(pipe[s]) : pipe[s][i] = f + i - 1
  BY DEF StreamInv, Fed, f
<1>11. StreamInv'
  <2>1. ASSUME NEW r \in Sockets PROVE Fed(r)'
    <3>1. CASE r = s
      <4>1. /\ pipe'[s] = q /\ seen'[s] = f /\ tab'.ws[s] = "open" /\ f # 0
            /\ clients' = clients /\ latestFrame' = latestFrame
        BY <1>1, <1>3, <1>7 DEF gatewayVars
      <4>2. ASSUME NEW i \in 1..Len(q) PROVE q[i] = q[1] + i - 1
        <5>1. i + 1 \in 1..Len(pipe[s]) /\ 2 \in 1..Len(pipe[s]) /\ 1 \in 1..Len(q)
          BY <1>2, <1>4, <4>2
        <5>2. q[i] = f + (i + 1) - 1 /\ q[1] = f + 2 - 1 BY <1>4, <1>10, <5>1
        <5> QED BY <1>3, <4>2, <5>2
      <4>3. ASSUME s \in clients
            PROVE f + Len(q) = latestFrame /\ (q # <<>> => q[Len(q)] = latestFrame)
        <5>1. pipe[s][Len(pipe[s])] = latestFrame BY <1>0, <4>3 DEF StreamInv, Fed
        <5>2. f + Len(pipe[s]) - 1 = latestFrame BY <1>2, <1>10, <5>1
        <5>3. q # <<>> => Len(q) \in 1..Len(q) BY <1>2, <1>4, EmptySeq
        <5>4. q # <<>> => q[Len(q)] = pipe[s][Len(q) + 1] BY <1>4, <5>3
        <5>5. Len(q) + 1 = Len(pipe[s]) BY <1>2, <1>4
        <5> QED BY <1>2, <1>3, <1>4, <5>1, <5>2, <5>4, <5>5
      <4> QED BY <3>1, <4>1, <4>2, <4>3 DEF Fed
    <3>2. CASE r # s
      <4>1. pipe'[r] = pipe[r] /\ seen'[r] = seen[r] BY <1>7, <3>2
      <4> QED BY <1>1, <4>1 DEF StreamInv, Fed, gatewayVars
    <3> QED BY <3>1, <3>2
  <2> QED BY <1>1, <2>1 DEF StreamInv, gatewayVars
<1>12. OrderInv'
  <2> SUFFICES ASSUME tab.runs = 1 PROVE OrderInv' BY <1>1 DEF OrderInv
  <2>1. /\ \A i, j \in 1..Len(history) : i <= j => history[i] <= history[j]
        /\ \A i \in 1..Len(history) : history[i] <= f
    <3>1. 1 \in 1..Len(pipe[s]) BY <1>2
    <3> QED BY <3>1 DEF OrderInv, f
  <2>l. Len(h) \in Nat /\ \A i \in 1..Len(h) : i \in 1..(Len(h) - 1) \/ i = Len(h)
    BY <1>6, FeedAssumption
  <2>2. \A i \in 1..Len(h) : h[i] <= f
    <3>1. \A i \in 1..(Len(h) - 1) : h[i] <= f BY <1>6, <2>1
    <3>2. h[Len(h)] <= f BY <1>3, <1>6
    <3> QED BY <2>l, <3>1, <3>2
  <2>3. \A i, j \in 1..Len(h) : i <= j => h[i] <= h[j]
    <3>1. PICK shift \in {0, 1} : \A i \in 1..(Len(h) - 1) :
            i + shift \in 1..Len(history) /\ h[i] = history[i + shift]
      BY <1>6
    <3>2. ASSUME NEW i \in 1..(Len(h) - 1), NEW j \in 1..(Len(h) - 1), i <= j
          PROVE h[i] <= h[j]
      <4>1. i + shift <= j + shift BY <3>2
      <4> QED BY <2>1, <3>1, <4>1
    <3>3. \A j \in 1..(Len(h) - 1) : ~(Len(h) <= j) BY <2>l
    <3> QED BY <1>6, <2>l, <2>2, <3>2, <3>3
  <2>4. ASSUME NEW r \in Sockets, r # s PROVE pipe[r] = <<>>
    <3>1. /\ tab.owner[s] # 0 /\ tab.owner[s] <= 1 /\ tab.owner[r] <= 1
          /\ tab.owner[s] \in Nat /\ tab.owner[r] \in Nat
      BY <1>1, FeedAssumption DEF TabInv, TabOK, OwnersOK, LooseTab, Runs
    <3>2. tab.owner[r] # tab.owner[s] BY <2>4, <3>1 DEF TabInv, TabOK, OwnersOK
    <3>3. tab.owner[r] = 0 BY <3>1, <3>2
    <3>4. tab.ws[r] = "none" BY <3>3 DEF TabInv, TabOK, OwnersOK
    <3> QED BY <3>4 DEF StreamInv, Fed
  <2>5. ASSUME NEW r \in Sockets, NEW i \in 1..Len(h), NEW j \in 1..Len(pipe'[r])
        PROVE h[i] <= pipe'[r][j]
    <3>1. r = s
      <4>1. r # s => pipe'[r] = <<>> BY <1>7, <2>4
      <4>2. pipe'[r] # <<>> BY <2>5, EmptySeq
      <4> QED BY <4>1, <4>2
    <3>2. j \in 1..Len(q) /\ pipe'[r] = q BY <1>7, <2>5, <3>1
    <3>3. j + 1 \in 1..Len(pipe[s]) BY <1>2, <1>4, <3>2
    <3>4. q[j] = f + (j + 1) - 1 BY <1>4, <1>10, <3>2, <3>3
    <3>5. h[i] \in Nat /\ h[i] <= f
      <4>1. h[i] \in 1..frame BY <1>6, <2>5, ElementOfSeq
      <4> QED BY <2>2, <2>5, <4>1
    <3> QED BY <1>3, <3>2, <3>4, <3>5
  <2> QED BY <1>1, <2>3, <2>5 DEF OrderInv
<1> QED BY <1>8, <1>9, <1>11, <1>12

LEMMA NextInv == Inv /\ [Next]_vars => Inv'
<1> SUFFICES ASSUME Inv, [Next]_vars PROVE Inv' OBVIOUS
<1>1. CASE UNCHANGED vars
  <2> USE <1>1 DEF vars, gatewayVars, streamVars, store
  <2>1. DataTypes' /\ TabInv' /\ OrderInv' BY DEF Inv, DataTypes, TabInv, OrderInv
  <2>2. StreamInv' BY DEF Inv, StreamInv, Fed
  <2> QED BY <2>1, <2>2 DEF Inv
<1>2. CASE Next
  <2>1. ASSUME NEW s \in Sockets, SocketEvent(s) PROVE Inv'
    BY <2>1, GreetInv, OnOpenInv, OnMessageInv, OnCloseInv DEF SocketEvent
  <2>2. ASSUME NEW e \in Runs, TimerFires(e) PROVE Inv' BY <2>2, TimerFiresInv
  <2>3. ASSUME GatewayStops \/ GatewayStarts \/ \E s \in Sockets : Terminate(s)
        PROVE Inv'
    BY <2>3, GatewayInv
  <2> QED BY <1>2, <2>1, <2>2, <2>3, NavigateInv, BroadcastFrameInv DEF Next
<1> QED BY <1>1, <1>2

\* The inductive invariant holds throughout.
THEOREM FeedInvariant == Spec => []Inv
<1> QED BY InitInv, NextInv, PTL DEF Spec

----------------------------------------------------------------------------

\* Types: refs, owners and timeouts are those of runs and WebSockets that exist,
\* and no frame is on its way that the gateway has not parsed.
THEOREM Typing == Spec => []TypeOK
<1>1. Inv => TypeOK
  <2> SUFFICES ASSUME Inv PROVE TypeOK OBVIOUS
  <2>1. tab \in TabType
    <3>1. tab \in LooseTab /\ tab.runs \in Runs /\ tab.page \in Runs
      BY FeedAssumption DEF Inv, TabInv, TabOK, Runs
    <3> QED BY <3>1 DEF LooseTab, TabType
  <2>2. DataTypes BY DEF Inv
  <2> QED BY <2>1, <2>2 DEF DataTypes, TypeOK
<1> QED BY <1>1, FeedInvariant, PTL

\* Reconnections do not multiply: a run of the effect has one WebSocket or one
\* timeout at a time, in development builds too, and after its page is gone.
THEOREM OneSocket == Spec => []OneSocketPerRun
<1>1. Inv => OneSocketPerRun
  <2> SUFFICES ASSUME Inv, NEW e \in Runs
               PROVE Cardinality({s \in Sockets : tab.owner[s] = e})
                       + (IF e \in tab.timers THEN 1 ELSE 0) <= 1
    BY DEF OneSocketPerRun
  <2> DEFINE mine == {s \in Sockets : tab.owner[s] = e}
  <2>1. e # 0 /\ OwnersOK(tab) BY FeedAssumption DEF Inv, TabInv, TabOK, Runs
  <2>2. CASE mine = {}
    <3>1. Cardinality(mine) = 0 BY <2>2, FS_EmptySet
    <3> HIDE DEF mine
    <3>2. Cardinality(mine) + (IF e \in tab.timers THEN 1 ELSE 0) <= 1 BY <3>1
    <3> QED BY <3>2 DEF mine
  <2>3. CASE mine # {}
    <3>1. PICK s \in Sockets : tab.owner[s] = e BY <2>3
    <3>2. mine = {s} BY <2>1, <3>1 DEF OwnersOK
    <3>3. e \notin tab.timers BY <2>1, <3>1 DEF OwnersOK
    <3>4. Cardinality({s}) = 1 BY FS_Singleton
    <3> QED BY <3>2, <3>3, <3>4
  <2> QED BY <2>2, <2>3
<1> QED BY <1>1, FeedInvariant, PTL

\* Every client of the gateway is fed without a gap, up to the latest frame.
THEOREM NoGaps == Spec => []StreamHasNoGaps
<1>1. Inv => StreamHasNoGaps
  <2> SUFFICES ASSUME Inv, NEW s \in clients
               PROVE LET stream == (IF seen[s] = 0 THEN <<>> ELSE <<seen[s]>>) \o pipe[s]
                     IN /\ latestFrame # 0 => stream # <<>> /\ Last(stream) = latestFrame
                        /\ \A i \in 2..Len(stream) : stream[i] = stream[i - 1] + 1
    BY DEF StreamHasNoGaps
  <2> DEFINE stream == (IF seen[s] = 0 THEN <<>> ELSE <<seen[s]>>) \o pipe[s]
  <2>1. s \in Sockets /\ Fed(s) BY DEF Inv, DataTypes, StreamInv
  <2>2. /\ pipe[s] \in Seq(1..frame) /\ Len(pipe[s]) \in Nat /\ latestFrame \in Nat
        /\ \A i \in 1..Len(pipe[s]) : pipe[s][i] \in Nat
        /\ pipe[s] # <<>> <=> Len(pipe[s]) # 0
        /\ seen[s] \in 0..frame /\ frame \in Nat
    BY <2>1, PipeTypes DEF Inv
  <2>f. /\ \A i \in 1..Len(pipe[s]) : pipe[s][i] = pipe[s][1] + i - 1
        /\ pipe[s] # <<>> => pipe[s][Len(pipe[s])] = latestFrame
        /\ seen[s] # 0 => seen[s] + Len(pipe[s]) = latestFrame
        /\ latestFrame # 0 => seen[s] # 0 \/ pipe[s] # <<>>
    BY <2>1 DEF Fed
  <2>3. CASE seen[s] = 0
    <3>1. stream = pipe[s] BY <2>2, <2>3, ConcatEmptySeq
    <3> HIDE DEF stream
    <3>2. latestFrame # 0 => stream # <<>> /\ Last(stream) = latestFrame
      BY <2>f, <2>3, <3>1 DEF Last
    <3>3. ASSUME NEW i \in 2..Len(stream) PROVE stream[i] = stream[i - 1] + 1
      <4>1. i \in 1..Len(pipe[s]) /\ i - 1 \in 1..Len(pipe[s]) /\ 1 \in 1..Len(pipe[s])
        BY <2>2, <3>1, <3>3
      <4>2. pipe[s][i] = pipe[s][1] + i - 1 /\ pipe[s][i - 1] = pipe[s][1] + (i - 1) - 1
        BY <2>f, <4>1
      <4>3. pipe[s][1] \in Nat /\ i \in Nat BY <2>2, <4>1
      <4>4. pipe[s][i] = pipe[s][i - 1] + 1 BY <4>2, <4>3
      <4> QED BY <3>1, <4>4
    <3> QED BY <3>2, <3>3 DEF stream
  <2>4. CASE seen[s] # 0
    <3>0. <<seen[s]>> \in Seq(1..frame) BY <2>2, <2>4
    <3>1. /\ Len(stream) = Len(pipe[s]) + 1 /\ stream[1] = seen[s]
          /\ \A i \in 1..Len(pipe[s]) : stream[i + 1] = pipe[s][i]
      <4>1. stream = <<seen[s]>> \o pipe[s] /\ Len(<<seen[s]>>) = 1 BY <2>4
      <4> HIDE DEF stream
      <4> QED BY <2>2, <3>0, <4>1, ConcatProperties
    <3>2. stream # <<>>
      <4> HIDE DEF stream
      <4> QED BY <2>2, <3>1, EmptySeq
    <3> HIDE DEF stream
    <3>3. seen[s] + Len(pipe[s]) = latestFrame BY <2>f, <2>4
    <3>4. ASSUME NEW i \in 1..Len(stream) PROVE stream[i] = seen[s] + i - 1
      <4>1. CASE i = 1 BY <2>2, <3>1, <4>1
      <4>2. CASE i # 1
        <5>1. /\ i - 1 \in 1..Len(pipe[s]) /\ Len(pipe[s]) \in 1..Len(pipe[s])
              /\ 1 \in 1..Len(pipe[s])
          BY <2>2, <3>1, <3>4, <4>2
        <5>2. /\ pipe[s][i - 1] = pipe[s][1] + (i - 1) - 1
              /\ pipe[s][Len(pipe[s])] = pipe[s][1] + Len(pipe[s]) - 1
              /\ pipe[s][Len(pipe[s])] = latestFrame
          <6>1. pipe[s] # <<>> BY <2>2, <5>1
          <6> QED BY <2>f, <5>1, <6>1
        <5>3. stream[i] = pipe[s][i - 1]
          <6>1. stream[(i - 1) + 1] = pipe[s][i - 1] BY <3>1, <5>1
          <6>2. (i - 1) + 1 = i BY <3>4
          <6> QED BY <6>1, <6>2
        <5>4. pipe[s][1] \in Nat BY <2>2, <5>1
        <5>5. /\ i \in Nat /\ seen[s] \in Nat
              /\ pipe[s][1] + Len(pipe[s]) - 1 = seen[s] + Len(pipe[s])
          <6>1. i \in Nat BY <3>4, <5>1
          <6>2. seen[s] \in Nat BY <2>2
          <6>3. pipe[s][1] + Len(pipe[s]) - 1 = latestFrame BY <5>2, Zenon
          <6> QED BY <3>3, <6>1, <6>2, <6>3, Zenon
        <5>6. stream[i] = pipe[s][1] + (i - 1) - 1 BY <5>2, <5>3
        <5>7. Len(pipe[s]) \in Nat BY <2>2
        <5>8. pipe[s][1] = seen[s] + 1 BY <5>4, <5>5, <5>7
        <5>9. \A a, j \in Nat : (a + 1) + (j - 1) - 1 = a + j - 1 OBVIOUS
        <5>10. (seen[s] + 1) + (i - 1) - 1 = seen[s] + i - 1 BY <5>5, <5>9, Zenon
        <5> QED BY <5>6, <5>8, <5>10, Zenon
      <4> QED BY <4>1, <4>2
    <3>5. Last(stream) = latestFrame
      <4>1. Len(stream) \in 1..Len(stream) BY <2>2, <3>1
      <4>2. stream[Len(stream)] = latestFrame BY <2>2, <3>1, <3>3, <3>4, <4>1
      <4> QED BY <4>2 DEF Last
    <3>6. ASSUME NEW i \in 2..Len(stream) PROVE stream[i] = stream[i - 1] + 1
      <4>1. i \in 1..Len(stream) /\ i - 1 \in 1..Len(stream) BY <2>2, <3>1, <3>6
      <4>2. stream[i] = seen[s] + i - 1 /\ stream[i - 1] = seen[s] + (i - 1) - 1
        BY <3>4, <4>1
      <4>3. i \in Nat /\ seen[s] \in Nat BY <2>2, <4>1
      <4> QED BY <4>2, <4>3
    <3> QED BY <3>2, <3>5, <3>6 DEF stream
  <2> QED BY <2>3, <2>4
<1> QED BY <1>1, FeedInvariant, PTL

\* Until a second run of the effect the history is in the order of the frames.
THEOREM OneRunOrder == Spec => []OneRunKeepsOrder
<1>1. Inv => OneRunKeepsOrder
  <2> SUFFICES ASSUME Inv, tab.runs = 1, NEW i \in 2..Len(history)
               PROVE history[i - 1] <= history[i]
    BY DEF OneRunKeepsOrder
  <2>1. Len(history) \in Nat BY LenProperties DEF Inv, DataTypes
  <2>2. i \in 1..Len(history) /\ i - 1 \in 1..Len(history) /\ i - 1 <= i BY <2>1
  <2> QED BY <2>2 DEF Inv, OrderInv
<1> QED BY <1>1, FeedInvariant, PTL
=============================================================================
