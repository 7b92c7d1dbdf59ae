--------------------------- MODULE TaskWalkProofs ---------------------------
(***************************************************************************)
(* Theorems about the modules that walk the kernel's tasks, for any number *)
(* of tasks that are forked, cloned, renamed and freed meanwhile.          *)
(***************************************************************************)
EXTENDS TaskWalk, FiniteSetTheorems, TLAPS

-----------------------------------------------------------------------------
(* Rings *)

\* The pointers n make rings of the members of S.
Ring(S, n) ==
  /\ \A s \in S : n[s] \in S
  /\ \A s \in S : \E u \in S : n[u] = s
  /\ \A u, v \in S : n[u] = n[v] => u = v

\* list_add_tail(): e goes between p and the member s that follows it.
LEMMA RingInsert ==
  ASSUME NEW N, NEW n \in [N -> N], NEW S \in SUBSET N, Ring(S, n),
         NEW p \in S, NEW s, n[p] = s, NEW e \in N \ S
  PROVE  Ring(S \cup {e}, [n EXCEPT ![p] = e, ![e] = s])
  <1> DEFINE m == [n EXCEPT ![p] = e, ![e] = s]
  <1>1. /\ m[p] = e /\ m[e] = s /\ s \in S
        /\ \A u \in S : u # p => m[u] = n[u] /\ n[u] # s
    BY DEF Ring
  <1> HIDE DEF m
  <1>2. \A u \in S \cup {e} : m[u] \in S \cup {e}
    BY <1>1 DEF Ring
  <1>3. \A v \in S \cup {e} : \E u \in S \cup {e} : m[u] = v
    <2>1. ASSUME NEW v \in S, v # s PROVE \E u \in S : m[u] = v
      BY <1>1, <2>1 DEF Ring
    <2>2. QED
      BY <1>1, <2>1
  <1>4. \A u, v \in S \cup {e} : m[u] = m[v] => u = v
    BY <1>1 DEF Ring
  <1>5. Ring(S \cup {e}, m)
    BY <1>2, <1>3, <1>4 DEF Ring
  <1>6. QED
    BY <1>5 DEF m

\* list_del_rcu(): s goes, and the member before it points past it.
LEMMA RingRemove ==
  ASSUME NEW N, NEW n \in [N -> N], NEW S \in SUBSET N, Ring(S, n),
         NEW p \in S, NEW s \in S, n[p] = s
  PROVE  Ring(S \ {s}, [n EXCEPT ![p] = n[s]])
  <1> DEFINE m == [n EXCEPT ![p] = n[s]]
  <1>1. /\ m[p] = n[s]
        /\ \A u \in S : u # p => m[u] = n[u] /\ n[u] # s
        /\ p = s => n[s] = s
    BY DEF Ring
  <1> HIDE DEF m
  <1>2. \A u \in S \ {s} : m[u] \in S \ {s}
    BY <1>1 DEF Ring
  <1>3. \A v \in S \ {s} : \E u \in S \ {s} : m[u] = v
    <2>1. ASSUME NEW v \in S \ {s} PROVE \E u \in S \ {s} : m[u] = v
      <3>1. PICK u \in S : n[u] = v
        BY DEF Ring
      <3>2. CASE u = s
        BY <1>1, <3>1, <3>2
      <3>3. CASE u # s
        BY <1>1, <3>1, <3>3
      <3>4. QED
        BY <3>2, <3>3
    <2>2. QED
      BY <2>1
  <1>4. \A u, v \in S \ {s} : m[u] = m[v] => u = v
    BY <1>1 DEF Ring
  <1>5. Ring(S \ {s}, m)
    BY <1>2, <1>3, <1>4 DEF Ring
  <1>6. QED
    BY <1>5 DEF m

\* list_replace_rcu(): e takes the place of s, which is not alone.
LEMMA RingReplace ==
  ASSUME NEW N, NEW n \in [N -> N], NEW S \in SUBSET N, Ring(S, n),
         NEW p \in S, NEW s \in S, n[p] = s, p # s, NEW e \in N \ S
  PROVE  Ring((S \ {s}) \cup {e}, [n EXCEPT ![p] = e, ![e] = n[s]])
  <1> DEFINE m == [n EXCEPT ![p] = e, ![e] = n[s]]
             R == (S \ {s}) \cup {e}
  <1>1. /\ m[p] = e /\ m[e] = n[s] /\ n[s] \in S \ {s}
        /\ \A u \in S : u # p => m[u] = n[u] /\ n[u] # s
    BY DEF Ring
  <1> HIDE DEF m
  <1>2. \A u \in R : m[u] \in R
    BY <1>1 DEF Ring
  <1>3. \A v \in R : \E u \in R : m[u] = v
    <2>1. ASSUME NEW v \in S \ {s} PROVE \E u \in R : m[u] = v
      <3>1. PICK u \in S : n[u] = v
        BY DEF Ring
      <3>2. CASE u = s
        BY <1>1, <3>1, <3>2
      <3>3. CASE u # s
        BY <1>1, <3>1, <3>3
      <3>4. QED
        BY <3>2, <3>3
    <2>2. QED
      BY <1>1, <2>1
  <1>4. \A u, v \in R : m[u] = m[v] => u = v
    BY <1>1 DEF Ring
  <1>5. Ring(R, m)
    BY <1>2, <1>3, <1>4 DEF Ring
  <1>6. QED
    BY <1>5 DEF m

-----------------------------------------------------------------------------
(* The lists of the kernel *)

Leaders == {s \in Listed : leader[s] = s}

ListTypes ==
  /\ life \in [Nodes -> {"unborn", "listed", "unlinked", "freed"}]
  /\ leader \in [Nodes -> Nodes]
  /\ next_task \in [Nodes -> Nodes]
  /\ next_thread \in [Nodes -> Nodes]

\* The leaders are in one ring, the threads of each group in another; nothing
\* but those rings leads anywhere, and only the idle task leads to itself.
ListsInv ==
  /\ ListTypes
  /\ life[Idle] = "listed" /\ leader[Idle] = Idle /\ next_thread[Idle] = Idle
  /\ \A s \in Tasks : next_thread[s] \in Tasks
  /\ \A s \in Listed \ {Idle} : leader[s] \in Leaders \ {Idle}
  /\ \A s \in Nodes : life[s] = "unborn" => leader[s] = s /\ next_task[s] = Idle /\ next_thread[s] = s
  /\ \A s \in Listed : leader[s] # s => next_task[s] = Idle
  /\ Ring(Leaders, next_task)
  /\ \A l \in Leaders : Ring(Group(l), next_thread)

\* The position of a process in the list.
Sorted(r) ==
  /\ r \in [Nodes -> Nat]
  /\ \A s \in Leaders : next_task[s] # Idle => r[s] < r[next_task[s]]

\* A member of the list has a member before it.
LEMMA PrevTaskFound ==
  ASSUME ListsInv, NEW s \in Leaders
  PROVE  PrevTask(s) \in Leaders /\ next_task[PrevTask(s)] = s
  <1>1. \E u \in Listed : leader[u] = u /\ next_task[u] = s
    BY DEF ListsInv, Ring, Leaders
  <1>2. QED
    BY <1>1 DEF PrevTask, Leaders

\* Nor is a thread without one before it in its group.
LEMMA PrevThreadFound ==
  ASSUME ListsInv, NEW s \in Listed
  PROVE  PrevThread(s) \in Group(s) /\ next_thread[PrevThread(s)] = s
  <1>1. PICK l \in Leaders : s \in Group(l) /\ Group(s) = Group(l)
    <2>1. leader[s] \in Leaders /\ leader[leader[s]] = leader[s]
      BY DEF ListsInv, Leaders
    <2>2. QED
      BY <2>1 DEF Group
  <1>2. \E u \in Group(s) : next_thread[u] = s
    BY <1>1 DEF ListsInv, Ring
  <1>3. QED
    BY <1>2 DEF PrevThread

\* What is not about a list leaves the lists as they are.
LEMMA SameLists ==
  ASSUME ListsInv, UNCHANGED <<life, listvars>>
  PROVE  ListsInv' /\ Leaders' = Leaders
  BY DEF ListsInv, ListTypes, Ring, Leaders, Group, Listed, listvars

\* fork() keeps the lists rings.
LEMMA ForkLists ==
  ASSUME ListsInv, NEW s \in Tasks, Fork(s)
  PROVE  /\ ListsInv' /\ Leaders' = Leaders \cup {s}
         /\ \A r : Sorted(r) => \E q : Sorted(q)'
  <1> DEFINE p == PrevTask(Idle)
  <1> USE WalkAssumption DEF Nodes
  <1>0. Idle \in Leaders /\ s \notin Listed
    BY DEF ListsInv, ListTypes, Leaders, Listed, Fork
  <1>1. p \in Leaders /\ next_task[p] = Idle
    BY <1>0, PrevTaskFound
  <1> HIDE DEF p
  <1>2. /\ life' = [life EXCEPT ![s] = "listed"]
        /\ next_task' = [next_task EXCEPT ![p] = s, ![s] = Idle]
        /\ leader' = leader /\ next_thread' = next_thread
        /\ life[s] = "unborn"
    BY DEF Fork, p
  <1>3. ListTypes'
    BY <1>2 DEF ListsInv, ListTypes
  <1>4. Listed' = Listed \cup {s} /\ Leaders' = Leaders \cup {s}
    BY <1>2 DEF ListsInv, ListTypes, Listed, Leaders
  <1>5. Ring(Leaders', next_task')
    <2>1. Leaders \in SUBSET Nodes /\ s \in Nodes \ Leaders /\ next_task \in [Nodes -> Nodes]
      BY <1>0 DEF ListsInv, ListTypes, Leaders, Listed
    <2>2. Ring(Leaders \cup {s}, [next_task EXCEPT ![p] = s, ![s] = Idle])
      BY <1>1, <2>1, RingInsert DEF ListsInv
    <2>3. QED
      BY <1>2, <1>4, <2>2
  <1>6. \A l \in Leaders' : Ring(Group(l), next_thread)'
    <2>1. \A l \in Leaders : Group(l)' = Group(l)
      BY <1>0, <1>2, <1>4 DEF Group, ListsInv, Leaders
    <2>2. Group(s)' = {s} /\ next_thread[s] = s
      BY <1>0, <1>2, <1>4 DEF Group, ListsInv, Leaders
    <2>3. QED
      BY <1>2, <1>4, <2>1, <2>2 DEF Ring, ListsInv
  <1>7. ListsInv'
    <2>1. /\ life'[Idle] = "listed" /\ leader'[Idle] = Idle /\ next_thread'[Idle] = Idle
          /\ \A u \in Tasks : next_thread'[u] \in Tasks
      BY <1>2 DEF ListsInv, ListTypes
    <2>2. \A u \in Listed' \ {Idle} : leader'[u] \in Leaders' \ {Idle}
      BY <1>2, <1>4 DEF ListsInv, Listed
    <2>3. \A u \in Nodes : life'[u] = "unborn" =>
            leader'[u] = u /\ next_task'[u] = Idle /\ next_thread'[u] = u
      BY <1>1, <1>2 DEF ListsInv, ListTypes, Leaders, Listed
    <2>4. \A u \in Listed' : leader'[u] # u => next_task'[u] = Idle
      BY <1>1, <1>2, <1>4 DEF ListsInv, ListTypes, Leaders, Listed
    <2>5. QED
      BY <1>3, <1>5, <1>6, <2>1, <2>2, <2>3, <2>4 DEF ListsInv
  <1>8. ASSUME NEW r, Sorted(r) PROVE \E q : Sorted(q)'
    <2>1. PICK q \in [Nodes -> Nat] : q[s] = r[p] + 1 /\ \A u \in Nodes : u # s => q[u] = r[u]
      <3> DEFINE q == [r EXCEPT ![s] = r[p] + 1]
      <3>1. q \in [Nodes -> Nat] /\ q[s] = r[p] + 1 /\ \A u \in Nodes : u # s => q[u] = r[u]
        BY <1>1, <1>8 DEF Sorted, Leaders, Listed
      <3>2. QED
        BY <3>1
    <2>2. ASSUME NEW u \in Leaders', next_task'[u] # Idle PROVE q[u] < q[next_task'[u]]
      <3>0. /\ r \in [Nodes -> Nat] /\ s \in Nodes /\ s \notin Leaders /\ s # p
            /\ next_task \in [Nodes -> Nodes] /\ Leaders \subseteq Nodes
        BY <1>0, <1>1, <1>8 DEF Sorted, Leaders, Listed, ListsInv, ListTypes
      <3>1. u # s
        BY <1>2, <2>2, <3>0
      <3>2. CASE u = p
        BY <1>1, <1>2, <2>1, <3>0, <3>2
      <3>3. CASE u # p
        <4>1. u \in Leaders /\ next_task'[u] = next_task[u] /\ next_task[u] \in Leaders
          BY <1>2, <1>4, <3>0, <3>1, <3>3 DEF ListsInv, Ring
        <4>2. r[u] < r[next_task[u]]
          BY <1>8, <2>2, <4>1 DEF Sorted
        <4>3. QED
          BY <2>1, <3>0, <3>1, <4>1, <4>2
      <3>4. QED
        BY <3>2, <3>3
    <2>3. Sorted(q)'
      BY <2>1, <2>2 DEF Sorted
    <2>4. QED
      BY <2>3
  <1>9. QED
    BY <1>4, <1>7, <1>8

\* clone() keeps the lists rings.
LEMMA CloneLists ==
  ASSUME ListsInv, NEW s \in Tasks, Clone(s)
  PROVE  ListsInv' /\ Leaders' = Leaders /\ UNCHANGED next_task
  <1> USE WalkAssumption DEF Nodes
  <1>1. PICK l \in Listed \ {Idle} :
          /\ leader[l] = l
          /\ leader' = [leader EXCEPT ![s] = l]
          /\ next_thread' = [next_thread EXCEPT ![PrevThread(l)] = s, ![s] = l]
    BY DEF Clone
  <1> DEFINE p == PrevThread(l)
  <1>2. /\ p \in Group(l) /\ next_thread[p] = l
        /\ next_thread' = [next_thread EXCEPT ![p] = s, ![s] = l]
    BY <1>1, PrevThreadFound
  <1> HIDE DEF p
  <1>3. /\ life[s] = "unborn" /\ s \notin Listed /\ l \in Leaders /\ s # l
        /\ life' = [life EXCEPT ![s] = "listed"] /\ next_task' = next_task
    BY <1>1 DEF Clone, Listed, Leaders
  <1>4. ListTypes'
    BY <1>1, <1>2, <1>3 DEF ListsInv, ListTypes, Listed, Group
  <1>5. Listed' = Listed \cup {s} /\ Leaders' = Leaders
    BY <1>1, <1>3 DEF ListsInv, ListTypes, Listed, Leaders
  <1>6. /\ Group(l)' = Group(l) \cup {s}
        /\ \A k \in Leaders \ {l} : Group(k)' = Group(k)
    BY <1>1, <1>3, <1>5 DEF Group, ListsInv, ListTypes, Listed, Leaders
  <1>7. Ring(Group(l)', next_thread')
    <2>1. Group(l) \in SUBSET Nodes /\ s \in Nodes \ Group(l) /\ next_thread \in [Nodes -> Nodes]
      BY <1>3 DEF ListsInv, ListTypes, Group, Listed
    <2>2. Ring(Group(l) \cup {s}, [next_thread EXCEPT ![p] = s, ![s] = l])
      BY <1>2, <1>3, <2>1, RingInsert DEF ListsInv
    <2>3. QED
      BY <1>2, <1>6, <2>2
  <1>8. ASSUME NEW k \in Leaders \ {l} PROVE Ring(Group(k)', next_thread')
    <2>1. p \notin Group(k) /\ s \notin Group(k)
      BY <1>1, <1>2, <1>3 DEF Group, Leaders
    <2>2. \A u \in Group(k) : next_thread'[u] = next_thread[u]
      BY <1>2, <2>1 DEF ListsInv, ListTypes, Group, Listed
    <2>3. Ring(Group(k), next_thread)
      BY DEF ListsInv
    <2>4. QED
      BY <1>6, <2>2, <2>3 DEF Ring
  <1>9. ListsInv'
    <2>1. /\ life'[Idle] = "listed" /\ leader'[Idle] = Idle /\ next_thread'[Idle] = Idle
          /\ \A u \in Tasks : next_thread'[u] \in Tasks
      <3>1. p # Idle
        BY <1>1, <1>2 DEF ListsInv
      <3>2. QED
        BY <1>1, <1>2, <1>3, <3>1 DEF ListsInv, ListTypes, Listed
    <2>2. \A u \in Listed' \ {Idle} : leader'[u] \in Leaders' \ {Idle}
      BY <1>1, <1>3, <1>5 DEF ListsInv, ListTypes, Listed
    <2>3. \A u \in Nodes : life'[u] = "unborn" =>
            leader'[u] = u /\ next_task'[u] = Idle /\ next_thread'[u] = u
      <3>1. life[p] = "listed" /\ p # s
        BY <1>2, <1>3 DEF Group, Listed
      <3>2. QED
        BY <1>1, <1>2, <1>3, <3>1 DEF ListsInv, ListTypes
    <2>4. \A u \in Listed' : leader'[u] # u => next_task'[u] = Idle
      BY <1>1, <1>3, <1>5 DEF ListsInv, ListTypes, Listed
    <2>5. Ring(Leaders', next_task')
      BY <1>3, <1>5 DEF ListsInv
    <2>6. \A k \in Leaders' : Ring(Group(k), next_thread)'
      BY <1>5, <1>7, <1>8
    <2>7. QED
      BY <1>4, <2>1, <2>2, <2>3, <2>4, <2>5, <2>6 DEF ListsInv
  <1>10. QED
    BY <1>3, <1>5, <1>9

\* An exiting thread leaves the other threads of its group in a ring.
LEMMA UnlinkThreadLists ==
  ASSUME ListsInv, NEW s \in Tasks, Unlink(s), leader[s] # s
  PROVE  ListsInv' /\ Leaders' = Leaders /\ UNCHANGED next_task
  <1> USE WalkAssumption DEF Nodes
  <1>0. PICK k, p : k = leader[s] /\ p = PrevThread(s)
    OBVIOUS
  <1>1. /\ life[s] = "listed" /\ s \in Listed /\ life' = [life EXCEPT ![s] = "unlinked"]
        /\ next_thread' = [next_thread EXCEPT ![p] = next_thread[s]]
        /\ leader' = leader /\ next_task' = next_task
    BY <1>0 DEF Unlink, Leave, Listed
  <1>2. /\ p \in Group(s) /\ next_thread[p] = s
        /\ k \in Leaders \ {Idle} /\ leader[k] = k /\ Group(s) = Group(k) /\ s \in Group(k)
    <2>1. p \in Group(s) /\ next_thread[p] = s
      BY <1>0, <1>1, PrevThreadFound
    <2>2. k \in Leaders \ {Idle} /\ leader[k] = k
      BY <1>0, <1>1 DEF ListsInv, Leaders
    <2>3. QED
      BY <1>0, <1>1, <2>1, <2>2 DEF Group
  <1>3. ListTypes'
    BY <1>1, <1>2 DEF ListsInv, ListTypes, Group, Listed
  <1>4. Listed' = Listed \ {s} /\ Leaders' = Leaders /\ s \notin Leaders
    BY <1>1 DEF ListsInv, ListTypes, Listed, Leaders
  <1>5. /\ Group(k)' = Group(k) \ {s}
        /\ \A l \in Leaders \ {k} : Group(l)' = Group(l) /\ s \notin Group(l)
    BY <1>1, <1>2, <1>4 DEF Group, Leaders
  <1>6. Ring(Group(k)', next_thread')
    <2>1. Group(k) \in SUBSET Nodes /\ next_thread \in [Nodes -> Nodes]
      BY DEF ListsInv, ListTypes, Group, Listed
    <2>2. Ring(Group(k) \ {s}, [next_thread EXCEPT ![p] = next_thread[s]])
      BY <1>2, <2>1, RingRemove DEF ListsInv
    <2>3. QED
      BY <1>1, <1>5, <2>2
  <1>7. ASSUME NEW l \in Leaders \ {k} PROVE Ring(Group(l)', next_thread')
    <2>1. p \notin Group(l)
      BY <1>2 DEF Group, Leaders
    <2>2. \A u \in Group(l) : next_thread'[u] = next_thread[u]
      BY <1>1, <2>1 DEF ListsInv, ListTypes, Group, Listed
    <2>3. Ring(Group(l), next_thread)
      BY DEF ListsInv
    <2>4. QED
      BY <1>5, <2>2, <2>3 DEF Ring
  <1>8. ListsInv'
    <2>1. /\ life'[Idle] = "listed" /\ leader'[Idle] = Idle /\ next_thread'[Idle] = Idle
          /\ \A u \in Tasks : next_thread'[u] \in Tasks
      <3>1. p # Idle /\ next_thread[s] \in Tasks
        BY <1>2 DEF ListsInv
      <3>2. QED
        BY <1>1, <3>1 DEF ListsInv, ListTypes
    <2>2. \A u \in Listed' \ {Idle} : leader'[u] \in Leaders' \ {Idle}
      BY <1>1, <1>4 DEF ListsInv
    <2>3. \A u \in Nodes : life'[u] = "unborn" =>
            leader'[u] = u /\ next_task'[u] = Idle /\ next_thread'[u] = u
      <3>1. life[p] = "listed"
        BY <1>2 DEF Group, Listed
      <3>2. QED
        BY <1>1, <3>1 DEF ListsInv, ListTypes
    <2>4. \A u \in Listed' : leader'[u] # u => next_task'[u] = Idle
      BY <1>1, <1>4 DEF ListsInv
    <2>5. Ring(Leaders', next_task')
      BY <1>1, <1>4 DEF ListsInv
    <2>6. \A l \in Leaders' : Ring(Group(l), next_thread)'
      BY <1>4, <1>6, <1>7
    <2>7. QED
      BY <1>3, <2>1, <2>2, <2>3, <2>4, <2>5, <2>6 DEF ListsInv
  <1>9. QED
    BY <1>1, <1>4, <1>8

\* A leader that exits leaves the other processes in a ring.
LEMMA UnlinkLeaderLists ==
  ASSUME ListsInv, NEW s \in Tasks, Unlink(s), leader[s] = s
  PROVE  /\ ListsInv' /\ Leaders' = Leaders \ {s}
         /\ \A r : Sorted(r) => Sorted(r)'
  <1> USE WalkAssumption DEF Nodes
  <1> DEFINE p == PrevTask(s)
  <1>1. /\ life[s] = "listed" /\ s \in Leaders /\ life' = [life EXCEPT ![s] = "unlinked"]
        /\ Group(s) = {s}
        /\ next_task' = [next_task EXCEPT ![p] = next_task[s]]
        /\ leader' = leader /\ next_thread' = next_thread
    BY DEF Unlink, Leave, Listed, Leaders
  <1>2. p \in Leaders /\ next_task[p] = s
    BY <1>1, PrevTaskFound
  <1> HIDE DEF p
  <1>3. ListTypes'
    BY <1>1, <1>2 DEF ListsInv, ListTypes, Leaders, Listed
  <1>4. Listed' = Listed \ {s} /\ Leaders' = Leaders \ {s}
    BY <1>1 DEF ListsInv, ListTypes, Listed, Leaders
  <1>5. Ring(Leaders', next_task')
    <2>1. Leaders \in SUBSET Nodes /\ next_task \in [Nodes -> Nodes]
      BY DEF ListsInv, ListTypes, Leaders, Listed
    <2>2. Ring(Leaders \ {s}, [next_task EXCEPT ![p] = next_task[s]])
      BY <1>1, <1>2, <2>1, RingRemove DEF ListsInv
    <2>3. QED
      BY <1>1, <1>4, <2>2
  <1>6. ASSUME NEW l \in Leaders \ {s} PROVE Ring(Group(l)', next_thread')
    <2>1. Group(l)' = Group(l)
      BY <1>1, <1>4 DEF Group, Leaders
    <2>2. QED
      BY <1>1, <2>1 DEF ListsInv
  <1>7. \A u \in Listed \ {s} : leader[u] # s
    BY <1>1 DEF Group, Listed, Leaders
  <1>8. ListsInv'
    <2>1. /\ life'[Idle] = "listed" /\ leader'[Idle] = Idle /\ next_thread'[Idle] = Idle
          /\ \A u \in Tasks : next_thread'[u] \in Tasks
      BY <1>1 DEF ListsInv, ListTypes
    <2>2. \A u \in Listed' \ {Idle} : leader'[u] \in Leaders' \ {Idle}
      BY <1>1, <1>4, <1>7 DEF ListsInv
    <2>3. \A u \in Nodes : life'[u] = "unborn" =>
            leader'[u] = u /\ next_task'[u] = Idle /\ next_thread'[u] = u
      <3>1. life[p] = "listed"
        BY <1>2 DEF Leaders, Listed
      <3>2. QED
        BY <1>1, <3>1 DEF ListsInv, ListTypes
    <2>4. \A u \in Listed' : leader'[u] # u => next_task'[u] = Idle
      BY <1>1, <1>2, <1>4 DEF ListsInv, ListTypes, Leaders, Listed
    <2>5. \A l \in Leaders' : Ring(Group(l), next_thread)'
      BY <1>4, <1>6
    <2>6. QED
      BY <1>3, <1>5, <2>1, <2>2, <2>3, <2>4, <2>5 DEF ListsInv
  <1>9. ASSUME NEW r, Sorted(r) PROVE Sorted(r)'
    <2>0. /\ r \in [Nodes -> Nat] /\ next_task \in [Nodes -> Nodes]
          /\ Leaders \subseteq Nodes /\ s \in Leaders /\ s # Idle /\ next_task[s] \in Leaders
      BY <1>1, <1>9 DEF Sorted, ListsInv, ListTypes, Leaders, Listed, Ring
    <2>1. ASSUME NEW u \in Leaders', next_task'[u] # Idle PROVE r[u] < r[next_task'[u]]
      <3>1. CASE u = p
        <4>1. next_task'[u] = next_task[s] /\ r[p] < r[s] /\ r[s] < r[next_task[s]]
          BY <1>1, <1>2, <1>9, <2>0, <2>1, <3>1 DEF Sorted
        <4>2. QED
          BY <1>2, <2>0, <3>1, <4>1
      <3>2. CASE u # p
        BY <1>1, <1>4, <1>9, <2>0, <2>1, <3>2 DEF Sorted
      <3>3. QED
        BY <3>1, <3>2
    <2>2. QED
      BY <2>0, <2>1 DEF Sorted
  <1>10. QED
    BY <1>4, <1>8, <1>9

\* A thread that calls exec takes the place of its leader in the ring.
LEMMA ExecLists ==
  ASSUME ListsInv, NEW s \in Tasks, Exec(s), NEW r, Sorted(r)
  PROVE  /\ ListsInv' /\ Leaders' = (Leaders \ {leader[s]}) \cup {s}
         /\ leader[s] \in Leaders \ {Idle, s}
         /\ \E q : Sorted(q)'
  <1> USE WalkAssumption DEF Nodes
  <1>0. PICK l, p : l = leader[s] /\ p = PrevTask(l)
    OBVIOUS
  <1>1. /\ l # s /\ life[l] = "listed" /\ Group(s) = {l, s} /\ life' = [life EXCEPT ![l] = "unlinked"]
        /\ leader' = [leader EXCEPT ![s] = s]
        /\ next_task' = [next_task EXCEPT ![p] = s, ![s] = next_task[l]]
        /\ next_thread' = [next_thread EXCEPT ![s] = s]
    BY <1>0 DEF Exec, Leave
  <1>2. /\ s \in Listed /\ s \notin Leaders /\ l \in Leaders \ {Idle} /\ leader[l] = l
        /\ \A u \in Listed : leader[u] = l => u \in {l, s}
    BY <1>0, <1>1 DEF Group, ListsInv, Leaders
  <1>3. p \in Leaders /\ next_task[p] = l /\ p # s
    BY <1>0, <1>2, PrevTaskFound
  <1>4. p # l
    BY <1>2, <1>3 DEF Sorted, Leaders, Listed
  <1>5. ListTypes'
    BY <1>1, <1>2, <1>3 DEF ListsInv, ListTypes, Leaders, Listed
  <1>6. Listed' = Listed \ {l} /\ Leaders' = (Leaders \ {l}) \cup {s}
    BY <1>1, <1>2 DEF ListsInv, ListTypes, Listed, Leaders
  <1>7. Ring(Leaders', next_task')
    <2>1. Leaders \in SUBSET Nodes /\ s \in Nodes \ Leaders /\ next_task \in [Nodes -> Nodes]
      BY <1>2 DEF ListsInv, ListTypes, Leaders, Listed
    <2>2. Ring((Leaders \ {l}) \cup {s}, [next_task EXCEPT ![p] = s, ![s] = next_task[l]])
      BY <1>2, <1>3, <1>4, <2>1, RingReplace DEF ListsInv
    <2>3. QED
      BY <1>1, <1>6, <2>2
  <1>8. Ring(Group(s)', next_thread')
    <2>1. Group(s)' = {s} /\ next_thread'[s] = s
      BY <1>1, <1>2, <1>6 DEF Group, ListsInv, ListTypes, Listed, Leaders
    <2>2. QED
      BY <2>1 DEF Ring
  <1>9. ASSUME NEW k \in Leaders \ {l} PROVE Ring(Group(k)', next_thread')
    <2>1. Group(k)' = Group(k) /\ s \notin Group(k)
      BY <1>0, <1>1, <1>2, <1>6 DEF Group, Leaders, Listed, ListsInv, ListTypes
    <2>2. \A u \in Group(k) : next_thread'[u] = next_thread[u]
      BY <1>1, <2>1 DEF ListsInv, ListTypes, Group, Listed
    <2>3. Ring(Group(k), next_thread)
      BY DEF ListsInv
    <2>4. QED
      BY <2>1, <2>2, <2>3 DEF Ring
  <1>10. ListsInv'
    <2>1. /\ life'[Idle] = "listed" /\ leader'[Idle] = Idle /\ next_thread'[Idle] = Idle
          /\ \A u \in Tasks : next_thread'[u] \in Tasks
      BY <1>1, <1>2 DEF ListsInv, ListTypes
    <2>2. \A u \in Listed' \ {Idle} : leader'[u] \in Leaders' \ {Idle}
      BY <1>1, <1>2, <1>6 DEF ListsInv, ListTypes, Listed
    <2>3. \A u \in Nodes : life'[u] = "unborn" =>
            leader'[u] = u /\ next_task'[u] = Idle /\ next_thread'[u] = u
      <3>1. life[p] = "listed" /\ life[s] = "listed"
        BY <1>2, <1>3 DEF Leaders, Listed
      <3>2. QED
        BY <1>1, <3>1 DEF ListsInv, ListTypes
    <2>4. \A u \in Listed' : leader'[u] # u => next_task'[u] = Idle
      BY <1>1, <1>3, <1>6 DEF ListsInv, ListTypes, Leaders, Listed
    <2>5. \A k \in Leaders' : Ring(Group(k), next_thread)'
      BY <1>6, <1>8, <1>9
    <2>6. QED
      BY <1>5, <1>7, <2>1, <2>2, <2>3, <2>4, <2>5 DEF ListsInv
  <1>11. \E q : Sorted(q)'
    <2>0. /\ r \in [Nodes -> Nat] /\ next_task \in [Nodes -> Nodes]
          /\ Leaders \subseteq Nodes /\ s \in Nodes /\ l \in Nodes
      BY <1>2 DEF Sorted, ListsInv, ListTypes, Leaders, Listed
    <2>1. PICK q \in [Nodes -> Nat] : q[s] = r[l] /\ \A u \in Nodes : u # s => q[u] = r[u]
      <3> DEFINE q == [r EXCEPT ![s] = r[l]]
      <3>1. q \in [Nodes -> Nat] /\ q[s] = r[l] /\ \A u \in Nodes : u # s => q[u] = r[u]
        BY <2>0
      <3>2. QED
        BY <3>1
    <2>2. ASSUME NEW u \in Leaders', next_task'[u] # Idle PROVE q[u] < q[next_task'[u]]
      <3>1. CASE u = p
        <4>1. next_task'[u] = s /\ q[u] = r[p] /\ r[p] < r[l]
          BY <1>1, <1>2, <1>3, <2>0, <2>1, <3>1 DEF Sorted
        <4>2. QED
          BY <2>1, <4>1
      <3>2. CASE u = s
        <4>1. next_task'[u] = next_task[l] /\ next_task[l] \in Leaders
          BY <1>1, <1>2, <2>0, <3>2 DEF ListsInv, Ring
        <4>2. r[l] < r[next_task[l]]
          BY <1>2, <2>2, <4>1 DEF Sorted
        <4>3. QED
          BY <1>2, <2>0, <2>1, <3>2, <4>1, <4>2
      <3>3. CASE u # p /\ u # s
        <4>1. u \in Leaders /\ next_task'[u] = next_task[u] /\ next_task[u] \in Leaders
          BY <1>1, <1>6, <2>0, <3>3 DEF ListsInv, Ring
        <4>2. r[u] < r[next_task[u]]
          BY <2>2, <4>1 DEF Sorted
        <4>3. QED
          BY <1>2, <2>0, <2>1, <3>3, <4>1, <4>2
      <3>4. QED
        BY <3>1, <3>2, <3>3
    <2>3. Sorted(q)'
      BY <2>1, <2>2 DEF Sorted
    <2>4. QED
      BY <2>3
  <1>12. QED
    BY <1>0, <1>1, <1>2, <1>6, <1>10, <1>11

\* The lists are in order whatever the tasks do.
KernelInv == ListsInv /\ \E r : Sorted(r)

\* Whatever the walk and the tasks do, the lists stay in order.
LEMMA KernelSteps ==
  ASSUME KernelInv, [Next]_vars
  PROVE  KernelInv'
  <1> USE DEF KernelInv
  <1>1. ASSUME NEW s \in Tasks, Fork(s) PROVE KernelInv'
    BY <1>1, ForkLists
  <1>2. ASSUME NEW s \in Tasks, Clone(s) PROVE KernelInv'
    BY <1>2, CloneLists DEF Sorted
  <1>3. ASSUME NEW s \in Tasks, Unlink(s) PROVE KernelInv'
    <2>1. CASE leader[s] # s
      BY <1>3, <2>1, UnlinkThreadLists DEF Sorted
    <2>2. CASE leader[s] = s
      BY <1>3, <2>2, UnlinkLeaderLists
    <2>3. QED
      BY <2>1, <2>2
  <1>4. ASSUME NEW s \in Tasks, Exec(s) PROVE KernelInv'
    BY <1>4, ExecLists
  <1>5. ASSUME NEW s \in Tasks, Free(s) PROVE KernelInv'
    <2>1. /\ life[s] = "unlinked" /\ life' = [life EXCEPT ![s] = "freed"]
          /\ leader' = leader /\ next_task' = next_task /\ next_thread' = next_thread
      BY <1>5 DEF Free, listvars
    <2>2. Listed' = Listed
      BY <2>1 DEF Listed, ListsInv, ListTypes
    <2>3. Leaders' = Leaders /\ \A l \in Leaders : Group(l)' = Group(l)
      BY <2>1, <2>2 DEF Leaders, Group
    <2>4. ListTypes' /\ life'[Idle] = life[Idle]
      BY <2>1, WalkAssumption DEF ListsInv, ListTypes, Nodes
    <2>5. \A u \in Nodes : life'[u] = "unborn" => life[u] = "unborn"
      BY <2>1 DEF ListsInv, ListTypes
    <2>6. ListsInv'
      BY <2>1, <2>2, <2>3, <2>4, <2>5 DEF ListsInv, Ring
    <2>7. QED
      BY <2>1, <2>3, <2>6 DEF Sorted
  <1>6. CASE UNCHANGED <<life, listvars>>
    BY <1>6, SameLists DEF Sorted, listvars
  <1>7. Walker => UNCHANGED <<life, listvars>>
    BY DEF Walker, Begin, Start, Oops, NextProcess, NextThread, End, TaskLock, ReadName,
           ReadName2, Relock, Count, Step, taskvars
  <1>8. \A s : Rename(s) => UNCHANGED <<life, listvars>>
    BY DEF Rename
  <1>9. UNCHANGED vars => UNCHANGED <<life, listvars>>
    BY DEF vars, taskvars
  <1>10. QED
    BY <1>1, <1>2, <1>3, <1>4, <1>5, <1>6, <1>7, <1>8, <1>9 DEF Next, OtherTasks

-----------------------------------------------------------------------------
(* The RCU read-side section *)

\* The tasks that a section begun by now keeps from being freed.
Kept == Listed \cup held

\* thrd_showall is at such a task, and none of them leads to another one.
SectionInv ==
  /\ \A s \in held : s \in Tasks /\ life[s] = "unlinked"
  /\ ~rcu => held = {}
  /\ rcu => pc \notin {"out", "done"}
  /\ walk = "rcu" =>
       /\ rcu => /\ {g, t} \subseteq Kept
                 /\ \A s \in Kept : next_task[s] \in Kept /\ next_thread[s] \in Kept
       /\ ~rcu => g = Idle /\ t = Idle /\ pc \in {"out", "done"}
       /\ pc # "oops"

\* Nothing leads out of the lists.
LEMMA ListedClosed ==
  ASSUME ListsInv, NEW s \in Listed
  PROVE  next_task[s] \in Listed /\ next_thread[s] \in Listed
  <1>1. next_task[s] \in Listed
    <2>1. CASE leader[s] = s
      BY <2>1 DEF ListsInv, Ring, Leaders
    <2>2. CASE leader[s] # s
      BY <2>2 DEF ListsInv, Listed, Nodes
    <2>3. QED
      BY <2>1, <2>2
  <1>2. PICK l \in Leaders : s \in Group(l)
    BY DEF ListsInv, Leaders, Group
  <1>3. next_thread[s] \in Group(l)
    BY <1>2 DEF ListsInv, Ring
  <1>4. QED
    BY <1>1, <1>3 DEF Group

\* Whatever the tasks do during the section, it stays so.
LEMMA SectionOthers ==
  ASSUME ListsInv, ListsInv', SectionInv, NEW r, Sorted(r), NEW s \in Tasks,
         Fork(s) \/ Clone(s) \/ Unlink(s) \/ Exec(s) \/ Free(s)
  PROVE  SectionInv'
  <1> USE WalkAssumption DEF Nodes
  <1>0. UNCHANGED <<walk, pc, g, t, rcu>>
    BY DEF Fork, Clone, Unlink, Exec, Leave, Free, Others
  <1>1. CASE Fork(s)
    <2>1. PICK p \in Leaders : /\ life' = [life EXCEPT ![s] = "listed"]
                               /\ next_task' = [next_task EXCEPT ![p] = s, ![s] = Idle]
      BY <1>1, PrevTaskFound DEF Fork, ListsInv, Leaders, Listed
    <2>2. /\ held' = held /\ next_thread' = next_thread /\ life[s] = "unborn" /\ next_thread[s] = s
          /\ Listed' = Listed \cup {s} /\ Idle \in Listed
      BY <1>1, <2>1 DEF Fork, ListsInv, ListTypes, Listed
    <2>3. Kept' = Kept \cup {s} /\ s \notin held
      BY <2>2 DEF Kept, SectionInv
    <2>0. Kept \subseteq Nodes
      BY DEF Kept, Listed, SectionInv
    <2>4. ASSUME NEW u \in Kept' PROVE u = s \/ (u \in Kept /\ next_task'[u] \in {next_task[u], s})
      BY <2>0, <2>1, <2>3, <2>4 DEF ListsInv, ListTypes
    <2>5. next_task'[s] = Idle \/ next_task'[s] = s
      BY <2>1 DEF ListsInv, ListTypes
    <2>6. \A u \in held' : u \in Tasks /\ life'[u] = "unlinked"
      BY <2>1, <2>2, <2>3 DEF SectionInv, ListsInv, ListTypes
    <2>7. walk = "rcu" /\ rcu => \A u \in Kept' : next_task'[u] \in Kept' /\ next_thread'[u] \in Kept'
      BY <2>2, <2>3, <2>4, <2>5 DEF SectionInv, Kept
    <2>8. QED
      BY <1>0, <2>2, <2>3, <2>6, <2>7 DEF SectionInv
  <1>2. CASE Clone(s)
    <2>1. PICK l \in Listed, p \in Listed : /\ life' = [life EXCEPT ![s] = "listed"]
                               /\ next_thread' = [next_thread EXCEPT ![p] = s, ![s] = l]
      BY <1>2, PrevThreadFound DEF Clone, Group
    <2>2. /\ held' = held /\ next_task' = next_task /\ life[s] = "unborn" /\ next_task[s] = Idle
          /\ Listed' = Listed \cup {s} /\ Idle \in Listed
      BY <1>2, <2>1 DEF Clone, ListsInv, ListTypes, Listed
    <2>3. Kept' = Kept \cup {s} /\ s \notin held
      BY <2>2 DEF Kept, SectionInv
    <2>0. Kept \subseteq Nodes
      BY DEF Kept, Listed, SectionInv
    <2>4. ASSUME NEW u \in Kept'
          PROVE  next_thread'[u] \in {s, l} \/ (u \in Kept /\ next_thread'[u] = next_thread[u])
      BY <2>0, <2>1, <2>3, <2>4 DEF ListsInv, ListTypes
    <2>5. \A u \in held' : u \in Tasks /\ life'[u] = "unlinked"
      BY <2>1, <2>2, <2>3 DEF SectionInv, ListsInv, ListTypes
    <2>6. walk = "rcu" /\ rcu => \A u \in Kept' : next_task'[u] \in Kept' /\ next_thread'[u] \in Kept'
      BY <2>2, <2>3, <2>4 DEF SectionInv, Kept
    <2>7. QED
      BY <1>0, <2>2, <2>3, <2>5, <2>6 DEF SectionInv
  <1>3. ASSUME NEW d \in Listed \cap Tasks, life' = [life EXCEPT ![d] = "unlinked"],
               held' = IF rcu THEN held \cup {d} ELSE held,
               \A u \in Nodes : next_task'[u] \in {next_task[u], next_task[d]} \cup Listed',
               \A u \in Nodes : next_thread'[u] \in {next_thread[u], next_thread[d]} \cup Listed'
        PROVE  SectionInv'
    <2>1. Listed' = Listed \ {d} /\ life'[d] = "unlinked"
      BY <1>3 DEF Listed, ListsInv, ListTypes
    <2>2. (\A u \in held' : u \in Tasks /\ life'[u] = "unlinked") /\ (~rcu' => held' = {})
      BY <1>0, <1>3, <2>1 DEF SectionInv, ListsInv, ListTypes
    <2>3. ASSUME rcu PROVE Kept' = Kept /\ d \in Kept
      BY <1>3, <2>1, <2>3 DEF Kept
    <2>4. ASSUME rcu, walk = "rcu", NEW u \in Kept' PROVE next_task'[u] \in Kept' /\ next_thread'[u] \in Kept'
      <3>1. u \in Nodes /\ u \in Kept /\ d \in Kept /\ Listed' \subseteq Kept'
        BY <2>3, <2>4 DEF Kept, Listed, SectionInv
      <3>2. {next_task[u], next_task[d], next_thread[u], next_thread[d]} \subseteq Kept
        BY <2>4, <3>1 DEF SectionInv
      <3>3. QED
        BY <1>3, <2>3, <2>4, <3>1, <3>2
    <2>5. QED
      BY <1>0, <2>2, <2>3, <2>4 DEF SectionInv
  <1>4. CASE Unlink(s)
    <2>1. /\ s \in Listed \cap Tasks /\ life' = [life EXCEPT ![s] = "unlinked"]
          /\ held' = IF rcu THEN held \cup {s} ELSE held
      BY <1>4 DEF Unlink, Leave, Listed
    <2>2. \A u \in Nodes : next_task'[u] \in {next_task[u], next_task[s]}
      BY <1>4 DEF Unlink, ListsInv, ListTypes
    <2>3. \A u \in Nodes : next_thread'[u] \in {next_thread[u], next_thread[s]}
      BY <1>4 DEF Unlink, ListsInv, ListTypes
    <2>4. QED
      BY <1>3, <2>1, <2>2, <2>3
  <1>5. CASE Exec(s)
    <2>1. leader[s] \in Leaders \ {Idle, s} /\ s \in Leaders'
      BY <1>5, ExecLists
    <2>2. leader[s] \in Listed \cap Tasks /\ s \in Listed'
      BY <2>1 DEF Leaders, Listed
    <2>3. QED
      BY <1>3, <1>5, <2>2 DEF Exec, Leave, ListsInv, ListTypes, Listed
  <1>6. CASE Free(s)
    <2>1. /\ life[s] = "unlinked" /\ life' = [life EXCEPT ![s] = "freed"] /\ s \notin held
          /\ UNCHANGED <<next_task, next_thread, held>>
      BY <1>6 DEF Free, listvars
    <2>2. Kept' = Kept
      BY <2>1 DEF Kept, Listed, ListsInv, ListTypes
    <2>3. QED
      BY <1>0, <2>1, <2>2 DEF SectionInv, ListsInv, ListTypes
  <1>7. QED
    BY <1>1, <1>2, <1>4, <1>5, <1>6

\* The walk stays among those tasks.
LEMMA SectionWalker ==
  ASSUME ListsInv, SectionInv, walk \in Walks, Walker
  PROVE  SectionInv'
  <1> USE WalkAssumption DEF Step, taskvars, listvars
  <1>1. CASE Begin
    <2>1. /\ rcu' = (walk \in {"rcu", "prcs"}) /\ pc' = "process" /\ pc = "out"
          /\ UNCHANGED <<life, next_task, next_thread, walk, g, t, held>>
      BY <1>1 DEF Begin, Start
    <2>2. walk = "rcu" => ~rcu /\ held = {} /\ g = Idle /\ t = Idle
      BY <2>1 DEF SectionInv
    <2>3. Kept' = Kept /\ (walk = "rcu" => Kept = Listed) /\ Idle \in Listed
      BY <2>1, <2>2 DEF Kept, Listed, ListsInv, Nodes
    <2>4. ~rcu' => held' = {}
      BY <2>1, <2>2 DEF SectionInv
    <2>5. \A s \in Listed : next_task[s] \in Listed /\ next_thread[s] \in Listed
      BY ListedClosed
    <2>6. QED
      BY <2>1, <2>2, <2>3, <2>4, <2>5 DEF SectionInv
  <1>2. ASSUME UNCHANGED <<life, next_task, next_thread, walk>>, rcu' = rcu,
               held' \in {held, IF walk = "prcs" THEN {} ELSE held},
               g' \in {g, next_task[g]}, t' \in {t, next_task[g], next_thread[t]},
               pc \notin {"out", "done"}, pc' \notin {"out", "done", "oops"}
        PROVE  SectionInv'
    <2>1. Listed' = Listed /\ (walk = "rcu" => Kept' = Kept /\ rcu)
      BY <1>2 DEF Kept, Listed, SectionInv
    <2>2. QED
      BY <1>2, <2>1 DEF SectionInv
  <1>3. CASE Oops
    <2>1. walk = "rcu" => Alive
      BY DEF SectionInv, Kept, Listed, Alive, ListsInv
    <2>2. QED
      BY <1>3, <2>1 DEF Oops, SectionInv, Kept, Listed
  <1>4. CASE NextProcess
    BY <1>2, <1>4 DEF NextProcess
  <1>5. CASE NextThread
    BY <1>2, <1>5 DEF NextThread
  <1>6. CASE End
    BY <1>6 DEF End, SectionInv
  <1>7. CASE TaskLock \/ ReadName \/ ReadName2 \/ Relock
    BY <1>2, <1>7 DEF TaskLock, ReadName, ReadName2, Relock
  <1>8. CASE Count
    BY <1>2, <1>8 DEF Count
  <1>9. QED
    BY <1>1, <1>3, <1>4, <1>5, <1>6, <1>7, <1>8 DEF Walker

-----------------------------------------------------------------------------
(* Names and task locks *)

\* A name is half written only by the owner of the task's lock, and the walk reads
\* it, and goes on to what it prints, while it is the owner.
NameInv ==
  /\ alloc_lock \in [Tasks -> Nodes \cup {NoOwner}]
  /\ comm \in [Nodes -> Halves \X Halves]
  /\ renames \in [Tasks -> {"no", "locked", "half"}]
  /\ name \in Halves \X Halves
  /\ \A s \in Tasks :
       /\ alloc_lock[s] \in {s, Idle, NoOwner}
       /\ alloc_lock[s] = s <=> renames[s] # "no"
       /\ IF renames[s] = "half" THEN comm[s][1] = 1 ELSE comm[s][1] = comm[s][2]
  /\ pc \in {"thread", "lock", "name", "name2", "relock", "count"} => t \in Tasks
  /\ walk # "prcs" =>
       /\ walk # "fixed" /\ pc = "name" => alloc_lock[t] = Idle
       /\ pc = "name2" => alloc_lock[t] = Idle /\ name[1] = comm[t][1]
       /\ pc \in {"relock", "count"} => name[1] = name[2]
       /\ pc = "count" => alloc_lock[t] = Idle

\* A task that renames itself does not disturb the walk.
LEMMA RenameNames ==
  ASSUME NameInv, NEW s \in Tasks, Rename(s)
  PROVE  NameInv'
  <1> USE WalkAssumption DEF Nodes, NameInv
  <1>0. UNCHANGED <<walk, pc, t, name>> /\ s \in Nodes /\ s # Idle /\ s # NoOwner /\ Idle # NoOwner
    BY DEF Rename, Others
  <1>1. CASE /\ renames[s] = "no" /\ alloc_lock[s] = NoOwner
             /\ alloc_lock' = [alloc_lock EXCEPT ![s] = s]
             /\ renames' = [renames EXCEPT ![s] = "locked"]
             /\ UNCHANGED comm
    BY <1>0, <1>1
  <1>2. CASE /\ renames[s] = "locked"
             /\ renames' = [renames EXCEPT ![s] = "half"]
             /\ comm' = [comm EXCEPT ![s][1] = 1]
             /\ UNCHANGED alloc_lock
    <2>1. /\ comm' \in [Nodes -> Halves \X Halves] /\ \A u \in Nodes \ {s} : comm'[u] = comm[u]
          /\ comm'[s][1] = 1
      BY <1>0, <1>2 DEF Halves
    <2>2. QED
      BY <1>0, <1>2, <2>1
  <1>3. CASE /\ renames[s] = "half"
             /\ alloc_lock' = [alloc_lock EXCEPT ![s] = NoOwner]
             /\ renames' = [renames EXCEPT ![s] = "no"]
             /\ comm' = [comm EXCEPT ![s][2] = 1]
    <2>1. /\ comm' \in [Nodes -> Halves \X Halves] /\ \A u \in Nodes \ {s} : comm'[u] = comm[u]
          /\ comm'[s][1] = 1 /\ comm'[s][2] = 1
      BY <1>0, <1>3 DEF Halves
    <2>2. QED
      BY <1>0, <1>3, <2>1
  <1>4. QED
    BY <1>1, <1>2, <1>3 DEF Rename

\* Nor does the walk lose what it knows of a name between its locks.
LEMMA WalkerNames ==
  ASSUME NameInv, ListsInv, walk \in Walks, g \in Nodes, t \in Nodes, Walker
  PROVE  NameInv'
  <1> USE WalkAssumption DEF Nodes, NameInv, Step, taskvars
  <1>0. UNCHANGED <<walk, comm, renames>> /\ next_task \in [Nodes -> Nodes]
    BY DEF Walker, Begin, Start, Oops, NextProcess, NextThread, End, TaskLock, ReadName,
           ReadName2, Relock, Count, ListsInv, ListTypes
  <1>1. CASE Begin \/ Oops \/ End
    BY <1>0, <1>1 DEF Begin, Start, Oops, End
  <1>2. CASE NextProcess
    <2>1. next_task[g] \in Tasks
      BY <1>0, <1>2 DEF NextProcess
    <2>2. pc' = IF walk = "prcs" THEN "name" ELSE "lock"
      BY <1>2 DEF NextProcess
    <2>3. QED
      BY <1>0, <1>2, <2>1, <2>2 DEF NextProcess
  <1>3. CASE NextThread
    BY <1>0, <1>3 DEF NextThread, ListsInv
  <1>4. CASE TaskLock
    BY <1>0, <1>4 DEF TaskLock
  <1>5. CASE ReadName
    <2>1. t \in Tasks /\ comm[t][1] \in Halves /\ pc' = "name2" /\ t' = t
      BY <1>5 DEF ReadName
    <2>2. name' \in Halves \X Halves /\ name'[1] = comm[t][1]
      BY <1>5, <2>1 DEF ReadName
    <2>3. walk # "prcs" => alloc_lock'[t] = Idle
      BY <1>5, <2>1 DEF ReadName
    <2>4. CASE alloc_lock' = alloc_lock
      BY <1>0, <2>1, <2>2, <2>3, <2>4
    <2>5. CASE alloc_lock' = [alloc_lock EXCEPT ![t] = Idle] /\ alloc_lock[t] = NoOwner
      <3>1. /\ alloc_lock' \in [Tasks -> Nodes \cup {NoOwner}] /\ alloc_lock'[t] = Idle
            /\ \A s \in Tasks \ {t} : alloc_lock'[s] = alloc_lock[s]
        BY <2>1, <2>5
      <3>2. QED
        BY <1>0, <2>1, <2>2, <2>3, <2>5, <3>1
    <2>6. QED
      BY <1>5, <2>4, <2>5 DEF ReadName
  <1>6. CASE ReadName2
    <2>1. t \in Tasks /\ comm[t] \in Halves \X Halves /\ pc' = IF walk = "fixed" THEN "relock" ELSE "count"
      BY <1>6 DEF ReadName2
    <2>2. name' \in Halves \X Halves /\ name'[1] = name[1] /\ name'[2] = comm[t][2] /\ t' = t
      BY <1>6, <2>1 DEF ReadName2
    <2>3. walk # "prcs" => alloc_lock[t] = Idle /\ renames[t] = "no" /\ name'[1] = name'[2]
      BY <1>6, <2>1, <2>2 DEF ReadName2
    <2>4. QED
      BY <1>0, <1>6, <2>1, <2>2, <2>3 DEF ReadName2
  <1>7. CASE Relock
    BY <1>0, <1>7 DEF Relock
  <1>8. CASE Count
    BY <1>0, <1>8 DEF Count
  <1>9. QED
    BY <1>1, <1>2, <1>3, <1>4, <1>5, <1>6, <1>7, <1>8 DEF Walker

\* What is not about names leaves them as they are.
LEMMA OtherNames ==
  ASSUME NameInv, UNCHANGED <<alloc_lock, comm, renames, name, pc, t, walk>>
  PROVE  NameInv'
  BY DEF NameInv

-----------------------------------------------------------------------------
(* The theorems *)

WalkTypes ==
  /\ walk \in Walks
  /\ pc \in {"out", "process", "thread", "lock", "name", "name2", "relock",
             "count", "done", "oops"}
  /\ {g, t} \subseteq Nodes
  /\ total \in 0..MaxTotal
  /\ rcu \in BOOLEAN /\ execed \in BOOLEAN
  /\ stayed \subseteq Tasks /\ seen \subseteq Tasks

WalkInv == KernelInv /\ SectionInv /\ NameInv /\ WalkTypes

\* There is room for the count of an empty walk.
LEMMA RoomToCount == MaxTotal \in Nat /\ MaxTotal > 1
  BY WalkAssumption, FS_CardinalityType DEF MaxTotal

\* The walker and the tasks keep the types.
LEMMA TypeSteps ==
  ASSUME WalkTypes, ListsInv, [Next]_vars
  PROVE  WalkTypes'
  <1> USE RoomToCount DEF WalkTypes
  <1>1. CASE Begin
    <2>1. Listed \ {Idle} \subseteq Tasks
      BY DEF Listed, Nodes
    <2>2. rcu' \in BOOLEAN
      BY <1>1 DEF Begin, Start
    <2>3. total' \in {0, 1} /\ total' \in 0..MaxTotal
      BY <1>1 DEF Begin, Start
    <2>4. execed' \in BOOLEAN
      BY <1>1 DEF Begin, Start
    <2>5. pc' = "process" /\ UNCHANGED <<walk, g, t>> /\ stayed' \subseteq Tasks /\ seen' \subseteq Tasks
      BY <1>1, <2>1 DEF Begin, Start
    <2>6. QED
      BY <2>2, <2>3, <2>4, <2>5
  <1>2. CASE Oops
    BY <1>2 DEF Oops, hisvars
  <1>3. CASE NextProcess \/ NextThread \/ End \/ TaskLock \/ ReadName \/ ReadName2 \/ Relock \/ Count
    <2>1. /\ g' \in {g, next_task[g], Idle} /\ t' \in {t, next_task[g], next_thread[t], Idle}
          /\ total' = total \/ (total < MaxTotal /\ total' = total + 1)
          /\ UNCHANGED <<walk, stayed, seen, execed>>
      BY <1>3 DEF NextProcess, NextThread, End, TaskLock, ReadName, ReadName2, Relock, Count,
                  Step, hisvars
    <2>2. pc' \in {"process", "thread", "lock", "name", "name2", "relock", "count", "done"}
      BY <1>3 DEF NextProcess, NextThread, End, TaskLock, ReadName, ReadName2, Relock, Count, Step
    <2>3. next_task[g] \in Nodes /\ next_thread[t] \in Nodes /\ Idle \in Nodes
      BY DEF ListsInv, ListTypes, Nodes
    <2>4. rcu' \in BOOLEAN
      BY <1>3 DEF NextProcess, NextThread, End, TaskLock, ReadName, ReadName2, Relock, Count, Step
    <2>5. total' \in 0..MaxTotal
      BY <2>1
    <2>6. QED
      BY <2>1, <2>2, <2>3, <2>4, <2>5
  <1>4. ASSUME NEW s \in Tasks, Fork(s) \/ Clone(s) \/ Unlink(s) \/ Exec(s) \/ Free(s) PROVE WalkTypes'
    BY <1>4 DEF Fork, Clone, Unlink, Exec, Leave, Free, Others, hisvars
  <1>5. ASSUME NEW s, Rename(s) PROVE WalkTypes'
    BY <1>5 DEF Rename, Others, hisvars
  <1>6. CASE UNCHANGED vars
    BY <1>6 DEF vars, hisvars
  <1>7. QED
    BY <1>1, <1>2, <1>3, <1>4, <1>5, <1>6 DEF Next, Walker, OtherTasks

\* What follows the place of a thread in the first process.
LEMMA Successor ==
  ASSUME NEW n \in Nat \ {0}, NEW i \in 1..n
  PROVE  (i % n) + 1 = IF i = n THEN 1 ELSE i + 1
  OBVIOUS

\* The threads of the first process stand in their places ...
LEMMA FirstPlaces ==
  \E n \in Nat \ {0} : \E k \in [Born -> 1..n] :
    /\ \A i \in 1..n : \E s \in Born : k[s] = i
    /\ \A u, v \in Born : k[u] = k[v] => u = v
    /\ First \in Born /\ k[First] = 1
    /\ \A s \in Born : After(s) \in Born /\ k[After(s)] = IF k[s] = n THEN 1 ELSE k[s] + 1
  <1> USE WalkAssumption
  <1> DEFINE n == Len(FirstProc)
             Place(s) == CHOOSE i \in DOMAIN FirstProc : FirstProc[i] = s
  <1>1. n \in Nat \ {0} /\ DOMAIN FirstProc = 1..n /\ \A i \in 1..n : FirstProc[i] \in Tasks
    OBVIOUS
  <1>2. ASSUME NEW i \in 1..n PROVE Place(FirstProc[i]) = i
    <2>1. \E j \in DOMAIN FirstProc : FirstProc[j] = FirstProc[i]
      BY <1>1
    <2>2. Place(FirstProc[i]) \in DOMAIN FirstProc /\ FirstProc[Place(FirstProc[i])] = FirstProc[i]
      BY <2>1
    <2>3. QED
      BY <1>1, <2>2
  <1>3. ASSUME NEW i \in 1..n PROVE After(FirstProc[i]) = FirstProc[IF i = n THEN 1 ELSE i + 1]
    <2>1. After(FirstProc[i]) = FirstProc[(Place(FirstProc[i]) % n) + 1]
      BY DEF After
    <2>2. Place(FirstProc[i]) = i
      BY <1>2
    <2>3. (i % n) + 1 = IF i = n THEN 1 ELSE i + 1
      BY <1>1, Successor
    <2> HIDE DEF n, Place
    <2>4. QED
      BY <2>1, <2>2, <2>3
  <1> HIDE DEF n, Place
  <1>4. Born = {FirstProc[i] : i \in 1..n} /\ First = FirstProc[1]
    BY <1>1 DEF Born, First
  <1>5. \A i \in 1..n : (IF i = n THEN 1 ELSE i + 1) \in 1..n
    BY <1>1
  <1>6. PICK k \in [Born -> 1..n] : \A i \in 1..n : k[FirstProc[i]] = i
    <2> DEFINE k == [s \in Born |-> Place(s)]
    <2>1. \A i \in 1..n : k[FirstProc[i]] = i
      BY <1>2, <1>4
    <2>2. k \in [Born -> 1..n]
      BY <1>2, <1>4
    <2>3. QED
      BY <2>1, <2>2
  <1>7. \A i \in 1..n : \E s \in Born : k[s] = i
    BY <1>4, <1>6
  <1>8. \A u, v \in Born : k[u] = k[v] => u = v
    BY <1>4, <1>6
  <1>9. First \in Born /\ k[First] = 1
    BY <1>1, <1>4, <1>6
  <1>10. ASSUME NEW s \in Born
         PROVE  After(s) \in Born /\ k[After(s)] = IF k[s] = n THEN 1 ELSE k[s] + 1
    <2>1. PICK i \in 1..n : s = FirstProc[i]
      BY <1>4
    <2>2. PICK j \in 1..n : j = IF i = n THEN 1 ELSE i + 1
      BY <1>5
    <2>3. After(s) = FirstProc[j] /\ k[s] = i
      BY <1>3, <1>6, <2>1, <2>2
    <2>4. After(s) \in Born /\ k[After(s)] = j
      BY <1>4, <1>6, <2>3
    <2>5. QED
      BY <2>2, <2>3, <2>4
  <1>11. QED
    BY <1>1, <1>7, <1>8, <1>9, <1>10

\* ... and in a ring.
LEMMA FirstRing ==
  /\ Born \subseteq Tasks /\ First \in Born
  /\ \A s \in Born : After(s) \in Born
  /\ \A s \in Born : \E u \in Born : After(u) = s
  /\ \A u, v \in Born : After(u) = After(v) => u = v
  <1>1. PICK n \in Nat \ {0} : \E k \in [Born -> 1..n] :
          /\ \A i \in 1..n : \E s \in Born : k[s] = i
          /\ \A u, v \in Born : k[u] = k[v] => u = v
          /\ First \in Born /\ k[First] = 1
          /\ \A s \in Born : After(s) \in Born /\ k[After(s)] = IF k[s] = n THEN 1 ELSE k[s] + 1
    BY FirstPlaces
  <1>2. PICK k \in [Born -> 1..n] :
          /\ \A i \in 1..n : \E s \in Born : k[s] = i
          /\ \A u, v \in Born : k[u] = k[v] => u = v
          /\ First \in Born /\ k[First] = 1
          /\ \A s \in Born : After(s) \in Born /\ k[After(s)] = IF k[s] = n THEN 1 ELSE k[s] + 1
    BY <1>1
  <1>3. ASSUME NEW s \in Born PROVE \E u \in Born : After(u) = s
    <2>1. PICK i \in 1..n : (IF i = n THEN 1 ELSE i + 1) = k[s]
      <3>1. CASE k[s] = 1
        BY <3>1
      <3>2. CASE k[s] # 1
        <4>1. k[s] - 1 \in 1..n /\ k[s] - 1 # n /\ (k[s] - 1) + 1 = k[s]
          BY <1>2, <3>2
        <4>2. QED
          BY <4>1
      <3>3. QED
        BY <3>1, <3>2
    <2>2. PICK u \in Born : k[u] = i
      BY <1>2
    <2>3. QED
      BY <1>2, <2>1, <2>2
  <1>4. ASSUME NEW u \in Born, NEW v \in Born, After(u) = After(v) PROVE u = v
    <2>1. (IF k[u] = n THEN 1 ELSE k[u] + 1) = (IF k[v] = n THEN 1 ELSE k[v] + 1)
      BY <1>2, <1>4
    <2>2. k[u] = k[v]
      BY <1>2, <2>1
    <2>3. QED
      BY <1>2, <2>2
  <1>5. Born \subseteq Tasks
    BY WalkAssumption DEF Born
  <1>6. QED
    BY <1>2, <1>3, <1>4, <1>5

\* At first there are the idle task and one process.
LEMMA InvInit ==
  ASSUME Init
  PROVE  WalkInv
  <1> USE WalkAssumption DEF Nodes
  <1>1. /\ life \in [Nodes -> {"unborn", "listed", "unlinked", "freed"}]
        /\ \A s \in Nodes : life[s] = IF s \in Born \cup {Idle} THEN "listed" ELSE "unborn"
        /\ \A s \in Nodes : leader[s] = IF s \in Born THEN First ELSE s
        /\ \A s \in Nodes : next_task[s] = IF s = Idle THEN First ELSE Idle
        /\ \A s \in Nodes : next_thread[s] = IF s \in Born THEN After(s) ELSE s
    BY DEF Init
  <1>2. Born \subseteq Tasks /\ First \in Born /\ Idle \notin Born
    BY FirstRing
  <1>3. ListTypes
    BY <1>1, <1>2, FirstRing DEF ListTypes, Init
  <1>4. Listed = Born \cup {Idle} /\ Leaders = {First, Idle} /\ First # Idle
    BY <1>1, <1>2 DEF Listed, Leaders
  <1>5. Group(First) = Born /\ Group(Idle) = {Idle}
    BY <1>1, <1>2, <1>4 DEF Group
  <1>6. Ring(Leaders, next_task)
    BY <1>1, <1>2, <1>4 DEF Ring
  <1>7. Ring(Group(First), next_thread)
    BY <1>1, <1>2, <1>5, FirstRing DEF Ring
  <1>8. Ring(Group(Idle), next_thread)
    BY <1>1, <1>2, <1>5 DEF Ring
  <1>9. ListsInv
    BY <1>1, <1>2, <1>3, <1>4, <1>6, <1>7, <1>8, FirstRing DEF ListsInv
  <1>10. \E r : Sorted(r)
    <2>1. PICK r \in [Nodes -> Nat] : \A s \in Nodes : r[s] = IF s = First THEN 1 ELSE 0
      <3> DEFINE r == [s \in Nodes |-> IF s = First THEN 1 ELSE 0]
      <3>1. r \in [Nodes -> Nat] /\ \A s \in Nodes : r[s] = IF s = First THEN 1 ELSE 0
        OBVIOUS
      <3>2. QED
        BY <3>1
    <2>2. Sorted(r)
      BY <1>1, <1>2, <1>4, <2>1 DEF Sorted
    <2>3. QED
      BY <2>2
  <1>11. SectionInv
    BY DEF SectionInv, Init
  <1>12. NameInv
    BY DEF NameInv, Init, Halves
  <1>13. WalkTypes
    <2>1. total \in 0..MaxTotal
      BY RoomToCount DEF Init
    <2>2. QED
      BY <2>1 DEF WalkTypes, Init
  <1>14. QED
    BY <1>9, <1>10, <1>11, <1>12, <1>13 DEF WalkInv, KernelInv

\* WalkInv is an invariant.
LEMMA Invariant == Spec => []WalkInv
  <1>1. ASSUME WalkInv, [Next]_vars PROVE WalkInv'
    <2> USE <1>1 DEF WalkInv
    <2>1. KernelInv'
      BY KernelSteps
    <2>2. WalkTypes'
      BY TypeSteps DEF KernelInv
    <2>3. SectionInv'
      <3>1. CASE Walker
        BY <3>1, SectionWalker DEF KernelInv, WalkTypes
      <3>2. ASSUME NEW s \in Tasks, Fork(s) \/ Clone(s) \/ Unlink(s) \/ Exec(s) \/ Free(s)
            PROVE  SectionInv'
        BY <2>1, <3>2, SectionOthers DEF KernelInv
      <3>3. ASSUME UNCHANGED <<life, listvars, held, rcu, walk, g, t, pc>> PROVE SectionInv'
        BY <3>3 DEF SectionInv, Kept, Listed, listvars
      <3>4. ASSUME NEW s \in Renamers, Rename(s) PROVE SectionInv'
        BY <3>3, <3>4 DEF Rename, Others
      <3>5. CASE UNCHANGED vars
        BY <3>3, <3>5 DEF vars, taskvars
      <3>6. QED
        BY <3>1, <3>2, <3>4, <3>5 DEF Next, OtherTasks
    <2>4. NameInv'
      <3>1. CASE Walker
        BY <3>1, WalkerNames DEF KernelInv, WalkTypes
      <3>2. ASSUME NEW s \in Tasks, Fork(s) \/ Clone(s) \/ Unlink(s) \/ Exec(s) \/ Free(s)
            PROVE  NameInv'
        BY <3>2, OtherNames DEF Fork, Clone, Unlink, Exec, Leave, Free, Others
      <3>3. ASSUME NEW s \in Renamers, Rename(s) PROVE NameInv'
        BY <3>3, RenameNames, WalkAssumption
      <3>4. CASE UNCHANGED vars
        BY <3>4, OtherNames DEF vars, taskvars
      <3>5. QED
        BY <3>1, <3>2, <3>3, <3>4 DEF Next, OtherTasks
    <2>5. QED
      BY <2>1, <2>2, <2>3, <2>4
  <1>2. QED
    BY <1>1, InvInit, PTL DEF Spec

\* Every variable keeps its type.
THEOREM TypeCorrect == Spec => []TypeOK
  <1>1. WalkInv => TypeOK
    BY DEF WalkInv, KernelInv, ListsInv, ListTypes, SectionInv, NameInv, WalkTypes, TypeOK
  <1>2. QED
    BY <1>1, Invariant, PTL

\* Under rcu_read_lock() alone, without tasklist_lock, thrd_showall touches no task
\* that has been freed, whatever is forked, exits or calls exec while it walks.
THEOREM RcuSuffices == Spec => []NoFreedTask
  <1>1. WalkInv => NoFreedTask
    BY DEF WalkInv, KernelInv, ListsInv, SectionInv, NoFreedTask, Alive, Kept, Listed
  <1>2. QED
    BY <1>1, Invariant, PTL

\* Where the task lock guards the copy, the name that is printed is an old or a new
\* one and never half of each.
THEOREM NamesWhole == Spec => []NameWhole
  <1>1. WalkInv => NameWhole
    BY DEF WalkInv, NameInv, NameWhole
  <1>2. QED
    BY <1>1, Invariant, PTL

-----------------------------------------------------------------------------
(* What the walk counts *)

\* What has come so far lies behind what u leads to.
OrderAt(u, r) ==
  /\ leader[next_task[u]] = next_task[u]
  /\ leader[next_thread[u]] = leader[u]
  /\ leader[u] # u => r[leader[u]] < r[u]
  /\ next_task[u] # Idle => r[u] < r[next_task[u]]
  /\ next_thread[u] # leader[u] => r[u] < r[next_thread[u]]

\* Who goes on from u does not pass over s.
NoSkip(u, s, r) ==
  r[u] < r[s] =>
    /\ leader[u] = u /\ leader[s] = s =>
         next_task[u] # Idle /\ (next_task[u] = s \/ r[next_task[u]] < r[s])
    /\ leader[u] = leader[s] =>
         next_thread[u] # leader[u] /\ (next_thread[u] = s \/ r[next_thread[u]] < r[s])

\* From the members of S the lists lead on in the order r and pass over no member
\* of T; b is larger than all.
Ordered(S, T, r, b) ==
  /\ r \in [Nodes -> Nat] /\ b \in Nat /\ \A u \in Nodes : r[u] < b
  /\ \A u \in S : OrderAt(u, r)
  /\ \A u \in S, s \in T : NoSkip(u, s, r)
  /\ \A s \in T : r[Idle] < r[leader[s]]

\* A new order agrees with the old one on S.
Agree(q, r, S) == \A u \in S : q[u] = r[u]

\* Nothing leads out of S.
Closed(S) == \A u \in S : next_task[u] \in S /\ next_thread[u] \in S /\ leader[u] \in S

\* A process that is forked comes last.
LEMMA ForkOrder ==
  ASSUME ListsInv, NEW s \in Tasks, Fork(s),
         NEW S \in SUBSET Nodes, Listed \subseteq S, Closed(S), s \notin S,
         NEW T \in SUBSET (S \ {Idle}), NEW r, NEW b, Ordered(S, T, r, b)
  PROVE  \E q : /\ Agree(q, r, S)
                /\ Ordered(S \cup {s}, T, q, b + 1)'
                /\ S = Listed /\ T = S \ {Idle} => Ordered(S \cup {s}, T \cup {s}, q, b + 1)'
  <1> USE WalkAssumption DEF Nodes
  <1>1. PICK p : /\ p \in S /\ leader[p] = p /\ next_task[p] = Idle /\ p # s
                 /\ next_task' = [next_task EXCEPT ![p] = s, ![s] = Idle]
                 /\ \A u \in Leaders : next_task[u] = Idle => u = p
    <2>1. Idle \in Leaders
      BY DEF ListsInv, Leaders, Listed
    <2>2. PrevTask(Idle) \in Leaders /\ next_task[PrevTask(Idle)] = Idle
      BY <2>1, PrevTaskFound
    <2>3. \A u \in Leaders : next_task[u] = Idle => u = PrevTask(Idle)
      BY <2>2 DEF ListsInv, Ring
    <2>4. next_task' = [next_task EXCEPT ![PrevTask(Idle)] = s, ![s] = Idle]
      BY DEF Fork
    <2>5. QED
      BY <2>2, <2>3, <2>4 DEF Leaders
  <1>2. PICK q \in [Nodes -> Nat] : q[s] = b /\ \A u \in Nodes \ {s} : q[u] = r[u]
    <2> DEFINE q == [r EXCEPT ![s] = b]
    <2>1. q \in [Nodes -> Nat] /\ q[s] = b /\ \A u \in Nodes \ {s} : q[u] = r[u]
      BY DEF Ordered
    <2>2. QED
      BY <2>1
  <1>3. /\ leader' = leader /\ next_thread' = next_thread
        /\ next_task'[p] = s /\ next_task'[s] = Idle
        /\ \A u \in S \ {p} : next_task'[u] = next_task[u]
        /\ leader[s] = s /\ next_thread[s] = s /\ leader[Idle] = Idle
    BY <1>1 DEF Fork, ListsInv, ListTypes
  <1>4. /\ b \in Nat /\ r \in [Nodes -> Nat] /\ \A u \in S : r[u] < b /\ r[u] \in Nat /\ q[u] = r[u]
        /\ Idle \in S /\ q[Idle] = r[Idle] /\ b + 1 \in Nat
    BY <1>2 DEF Ordered, ListsInv, Listed
  <1>5. ASSUME NEW u \in Nodes PROVE q[u] < b + 1
    <2>1. u # s => r[u] < b /\ r[u] \in Nat /\ q[u] = r[u]
      BY <1>2 DEF Ordered
    <2>2. QED
      BY <1>2, <1>4, <2>1
  <1>6. ASSUME NEW u \in S \cup {s} PROVE OrderAt(u, q)'
    <2>1. CASE u = s
      BY <1>2, <1>3, <2>1 DEF OrderAt
    <2>2. CASE u = p
      BY <1>1, <1>2, <1>3, <1>4, <2>2 DEF OrderAt, Ordered, Closed
    <2>3. CASE u \in S \ {p}
      <3>1. OrderAt(u, r) /\ next_task[u] \in S /\ next_thread[u] \in S /\ leader[u] \in S
        BY <2>3 DEF Ordered, Closed
      <3>2. QED
        BY <1>3, <1>4, <2>3, <3>1 DEF OrderAt
    <2>4. QED
      BY <2>1, <2>2, <2>3
  <1>7. ASSUME NEW u \in S \cup {s}, NEW v \in T PROVE NoSkip(u, v, q)'
    <2>1. CASE u = s
      BY <1>2, <1>4, <2>1 DEF NoSkip
    <2>2. CASE u = p
      <3>1. ~ (r[p] < r[v] /\ leader[v] = v)
        BY <1>1 DEF Ordered, NoSkip
      <3>2. leader[p] = leader[v] /\ r[p] < r[v] =>
              next_thread[p] # leader[p] /\ (next_thread[p] = v \/ r[next_thread[p]] < r[v])
        BY <1>1 DEF Ordered, NoSkip
      <3>3. next_thread[p] \in S
        BY <1>1 DEF Closed
      <3>4. QED
        BY <1>3, <1>4, <2>2, <3>1, <3>2, <3>3 DEF NoSkip
    <2>3. CASE u \in S \ {p}
      <3>1. NoSkip(u, v, r) /\ next_task[u] \in S /\ next_thread[u] \in S
        BY <2>3 DEF Ordered, Closed
      <3>2. QED
        BY <1>3, <1>4, <2>3, <3>1 DEF NoSkip
    <2>4. QED
      BY <2>1, <2>2, <2>3
  <1>8. ASSUME NEW v \in T PROVE q[Idle] < q[leader'[v]]
    BY <1>3, <1>4 DEF Ordered, Closed
  <1>9. Ordered(S \cup {s}, T, q, b + 1)'
    BY <1>2, <1>4, <1>5, <1>6, <1>7, <1>8 DEF Ordered
  <1>10. ASSUME S = Listed, T = S \ {Idle} PROVE Ordered(S \cup {s}, T \cup {s}, q, b + 1)'
    <2>1. ASSUME NEW u \in S \cup {s} PROVE NoSkip(u, s, q)'
      <3>1. CASE u = s
        BY <1>2, <1>4, <3>1 DEF NoSkip
      <3>2. CASE u = p
        <4>1. next_task'[u] = s /\ leader'[u] # leader'[s] /\ s # Idle
          BY <1>1, <1>3, <3>2
        <4>2. QED
          BY <4>1 DEF NoSkip
      <3>3. CASE u \in S \ {p}
        <4>1. leader[u] # s /\ next_task[u] \in S
          BY <3>3 DEF Closed
        <4>2. leader[u] = u => next_task[u] # Idle
          BY <1>1, <1>10, <3>3 DEF Leaders
        <4>3. QED
          BY <1>2, <1>3, <1>4, <3>3, <4>1, <4>2 DEF NoSkip
      <3>4. QED
        BY <3>1, <3>2, <3>3
    <2>2. q[Idle] < q[leader'[s]]
      BY <1>2, <1>3, <1>4
    <2>3. QED
      BY <1>9, <2>1, <2>2 DEF Ordered
  <1>11. QED
    BY <1>4, <1>9, <1>10 DEF Agree

\* So does a new thread in its group.
LEMMA CloneOrder ==
  ASSUME ListsInv, NEW s \in Tasks, Clone(s),
         NEW S \in SUBSET Nodes, Listed \subseteq S, Closed(S), s \notin S,
         NEW T \in SUBSET (S \ {Idle}), NEW r, NEW b, Ordered(S, T, r, b)
  PROVE  \E q : /\ Agree(q, r, S)
                /\ Ordered(S \cup {s}, T, q, b + 1)'
                /\ S = Listed /\ T = S \ {Idle} => Ordered(S \cup {s}, T \cup {s}, q, b + 1)'
  <1> USE WalkAssumption DEF Nodes
  <1>1. PICK l, p : /\ l \in S \ {Idle} /\ leader[l] = l
                    /\ leader' = [leader EXCEPT ![s] = l]
                    /\ p \in S /\ leader[p] = l /\ next_thread[p] = l
                    /\ next_thread' = [next_thread EXCEPT ![p] = s, ![s] = l]
                    /\ \A u \in Listed : leader[u] = l /\ next_thread[u] = l => u = p
    <2>1. PICK l \in Listed \ {Idle} :
            /\ leader[l] = l
            /\ leader' = [leader EXCEPT ![s] = l]
            /\ next_thread' = [next_thread EXCEPT ![PrevThread(l)] = s, ![s] = l]
      BY DEF Clone
    <2>2. PrevThread(l) \in Group(l) /\ next_thread[PrevThread(l)] = l
      BY <2>1, PrevThreadFound
    <2>3. \A u \in Listed : leader[u] = l /\ next_thread[u] = l => u = PrevThread(l)
      <3>1. l \in Leaders
        BY <2>1 DEF Leaders
      <3>2. \A u, v \in Group(l) : next_thread[u] = next_thread[v] => u = v
        BY <3>1 DEF ListsInv, Ring
      <3>3. QED
        BY <2>1, <2>2, <3>2 DEF Group
    <2>4. PICK p : p = PrevThread(l)
      OBVIOUS
    <2>5. /\ p \in Listed /\ leader[p] = l /\ next_thread[p] = l
          /\ \A u \in Listed : leader[u] = l /\ next_thread[u] = l => u = p
      BY <2>1, <2>2, <2>3, <2>4 DEF Group
    <2>6. QED
      BY <2>1, <2>4, <2>5
  <1>2. PICK q \in [Nodes -> Nat] : q[s] = b /\ \A u \in Nodes \ {s} : q[u] = r[u]
    <2> DEFINE q == [r EXCEPT ![s] = b]
    <2>1. q \in [Nodes -> Nat] /\ q[s] = b /\ \A u \in Nodes \ {s} : q[u] = r[u]
      BY DEF Ordered
    <2>2. QED
      BY <2>1
  <1>3. /\ next_task' = next_task /\ next_task[s] = Idle
        /\ next_thread'[p] = s /\ next_thread'[s] = l
        /\ \A u \in S \ {p} : next_thread'[u] = next_thread[u]
        /\ leader'[s] = l /\ s # l /\ s # p
        /\ \A u \in S : leader'[u] = leader[u]
        /\ leader[Idle] = Idle
    BY <1>1 DEF Clone, ListsInv, ListTypes
  <1>4. /\ b \in Nat /\ r \in [Nodes -> Nat] /\ \A u \in S : r[u] < b /\ r[u] \in Nat /\ q[u] = r[u]
        /\ Idle \in S /\ q[Idle] = r[Idle] /\ b + 1 \in Nat
    BY <1>2 DEF Ordered, ListsInv, Listed
  <1>5. ASSUME NEW u \in Nodes PROVE q[u] < b + 1
    <2>1. u # s => r[u] < b /\ r[u] \in Nat /\ q[u] = r[u]
      BY <1>2 DEF Ordered
    <2>2. QED
      BY <1>2, <1>4, <2>1
  <1>6. ASSUME NEW u \in S \cup {s} PROVE OrderAt(u, q)'
    <2>1. CASE u = s
      <3>1. r[l] < b /\ q[l] = r[l] /\ leader'[l] = l /\ leader'[Idle] = Idle /\ next_task'[s] = Idle
        BY <1>1, <1>3, <1>4
      <3>2. QED
        BY <1>2, <1>3, <2>1, <3>1 DEF OrderAt
    <2>2. CASE u = p
      <3>1. OrderAt(p, r) /\ next_task[p] \in S
        BY <1>1 DEF Ordered, Closed
      <3>2. r[p] < b /\ q[p] = r[p] /\ leader'[p] = l /\ q[l] = r[l] /\ leader[p] = l
        BY <1>1, <1>3, <1>4
      <3>3. leader'[next_task[p]] = leader[next_task[p]] /\ q[next_task[p]] = r[next_task[p]]
        BY <1>3, <1>4, <3>1
      <3>4. QED
        BY <1>2, <1>3, <2>2, <3>1, <3>2, <3>3 DEF OrderAt
    <2>3. CASE u \in S \ {p}
      <3>1. OrderAt(u, r) /\ next_task[u] \in S /\ next_thread[u] \in S /\ leader[u] \in S
        BY <2>3 DEF Ordered, Closed
      <3>2. QED
        BY <1>3, <1>4, <2>3, <3>1 DEF OrderAt
    <2>4. QED
      BY <2>1, <2>2, <2>3
  <1>7. ASSUME NEW u \in S \cup {s}, NEW v \in T PROVE NoSkip(u, v, q)'
    <2>1. CASE u = s
      BY <1>2, <1>4, <2>1 DEF NoSkip
    <2>2. CASE u = p
      <3>1. ~ (r[p] < r[v] /\ leader[v] = l)
        BY <1>1 DEF Ordered, NoSkip
      <3>2. NoSkip(p, v, r) /\ next_task[p] \in S
        BY <1>1 DEF Ordered, Closed
      <3>3. /\ leader'[p] = l /\ leader[p] = l /\ leader'[v] = leader[v] /\ q[p] = r[p] /\ q[v] = r[v]
            /\ q[next_task[p]] = r[next_task[p]]
        BY <1>1, <1>3, <1>4, <3>2
      <3>4. QED
        BY <1>3, <2>2, <3>1, <3>2, <3>3 DEF NoSkip
    <2>3. CASE u \in S \ {p}
      <3>1. NoSkip(u, v, r) /\ next_task[u] \in S /\ next_thread[u] \in S
        BY <2>3 DEF Ordered, Closed
      <3>2. QED
        BY <1>3, <1>4, <2>3, <3>1 DEF NoSkip
    <2>4. QED
      BY <2>1, <2>2, <2>3
  <1>8. ASSUME NEW v \in T PROVE q[Idle] < q[leader'[v]]
    <2>1. leader[v] \in S /\ leader'[v] = leader[v] /\ r[Idle] < r[leader[v]]
      BY <1>3 DEF Ordered, Closed
    <2>2. QED
      BY <1>4, <2>1
  <1>9. Ordered(S \cup {s}, T, q, b + 1)'
    BY <1>2, <1>4, <1>5, <1>6, <1>7, <1>8 DEF Ordered
  <1>10. ASSUME S = Listed, T = S \ {Idle} PROVE Ordered(S \cup {s}, T \cup {s}, q, b + 1)'
    <2>1. ASSUME NEW u \in S \cup {s} PROVE NoSkip(u, s, q)'
      <3>1. CASE u = s
        BY <1>2, <1>4, <3>1 DEF NoSkip
      <3>2. CASE u = p
        BY <1>1, <1>3, <3>2 DEF NoSkip
      <3>3. CASE u \in S \ {p}
        <4>1. next_thread[u] \in S /\ leader[u] \in S
          BY <3>3 DEF Closed
        <4>2. leader[u] = l => next_thread[u] # l
          BY <1>1, <1>10, <3>3
        <4>3. r[next_thread[u]] < b /\ q[next_thread[u]] = r[next_thread[u]]
          BY <1>4, <4>1
        <4>4. QED
          BY <1>2, <1>3, <3>3, <4>2, <4>3 DEF NoSkip
      <3>4. QED
        BY <3>1, <3>2, <3>3
    <2>2. q[Idle] < q[leader'[s]]
      <3>1. r[Idle] < r[l]
        BY <1>1, <1>10 DEF Ordered
      <3>2. QED
        BY <1>1, <1>3, <1>4, <3>1
    <2>3. QED
      BY <1>9, <2>1, <2>2 DEF Ordered
  <1>11. QED
    BY <1>4, <1>9, <1>10 DEF Agree

\* An order of many orders fewer.
LEMMA OrderOfFewer ==
  ASSUME NEW S, NEW T, NEW r, NEW b, Ordered(S, T, r, b), NEW U \in SUBSET S, NEW V \in SUBSET T
  PROVE  Ordered(U, V, r, b)
  BY DEF Ordered

\* The task before one that exits leads past it, and passes over nobody else.
LEMMA UnlinkOrder ==
  ASSUME ListsInv, NEW s \in Tasks, Unlink(s),
         NEW S \in SUBSET Nodes, Listed \subseteq S, Closed(S),
         NEW T \in SUBSET (S \ {Idle}), NEW r, NEW b, Ordered(S, T, r, b)
  PROVE  Ordered(S, T \ {s}, r, b)' /\ Closed(S)'
  <1> USE WalkAssumption DEF Nodes
  <1>0. /\ s \in S /\ s \in Listed /\ leader' = leader
        /\ b \in Nat /\ r \in [Nodes -> Nat] /\ \A u \in S : r[u] \in Nat
    BY DEF Unlink, Leave, Listed, Ordered
  <1>1. CASE leader[s] # s
    <2>1. PICK p : /\ p \in S /\ leader[p] = leader[s] /\ next_thread[p] = s
                   /\ next_thread' = [next_thread EXCEPT ![p] = next_thread[s]]
      <3>1. PrevThread(s) \in Group(s) /\ next_thread[PrevThread(s)] = s
        BY <1>0, PrevThreadFound
      <3>2. QED
        BY <1>1, <3>1 DEF Group, Unlink
    <2>2. /\ next_task' = next_task /\ next_thread'[p] = next_thread[s]
          /\ \A u \in S \ {p} : next_thread'[u] = next_thread[u]
      BY <1>1, <2>1 DEF Unlink, ListsInv, ListTypes
    <2>3. Closed(S)'
      BY <1>0, <2>2 DEF Closed
    <2>4. /\ OrderAt(p, r) /\ OrderAt(s, r)
          /\ next_thread[s] \in S /\ r[next_thread[s]] \in Nat /\ r[p] \in Nat /\ r[s] \in Nat
      BY <1>0, <2>1 DEF Ordered, Closed
    <2>5. r[p] < r[s] /\ (next_thread[s] # leader[s] => r[p] < r[next_thread[s]])
      BY <1>1, <2>1, <2>4 DEF OrderAt
    <2>6. ASSUME NEW u \in S PROVE OrderAt(u, r)'
      <3>1. OrderAt(u, r)
        BY DEF Ordered
      <3>2. CASE u = p
        BY <1>0, <2>1, <2>2, <2>4, <2>5, <3>2 DEF OrderAt
      <3>3. CASE u # p
        BY <1>0, <2>2, <3>1, <3>3 DEF OrderAt
      <3>4. QED
        BY <3>2, <3>3
    <2>7. ASSUME NEW u \in S, NEW v \in T \ {s} PROVE NoSkip(u, v, r)'
      <3>1. NoSkip(u, v, r) /\ NoSkip(s, v, r)
        BY <1>0 DEF Ordered
      <3>2. CASE u = p
        BY <1>0, <2>1, <2>2, <3>1, <3>2 DEF NoSkip
      <3>3. CASE u # p
        BY <1>0, <2>2, <3>1, <3>3 DEF NoSkip
      <3>4. QED
        BY <3>2, <3>3
    <2>8. QED
      BY <1>0, <2>3, <2>6, <2>7 DEF Ordered
  <1>2. CASE leader[s] = s
    <2>1. PICK p : /\ p \in S /\ leader[p] = p /\ next_task[p] = s
                   /\ next_task' = [next_task EXCEPT ![p] = next_task[s]]
      <3>1. PrevTask(s) \in Leaders /\ next_task[PrevTask(s)] = s
        BY <1>0, <1>2, PrevTaskFound DEF Leaders
      <3>2. QED
        BY <1>2, <3>1 DEF Leaders, Unlink
    <2>2. /\ next_thread' = next_thread /\ next_task'[p] = next_task[s] /\ s # Idle
          /\ \A u \in S \ {p} : next_task'[u] = next_task[u]
      BY <1>2, <2>1 DEF Unlink, ListsInv, ListTypes
    <2>3. Closed(S)'
      BY <1>0, <2>2 DEF Closed
    <2>4. /\ OrderAt(p, r) /\ OrderAt(s, r)
          /\ next_task[s] \in S /\ r[next_task[s]] \in Nat /\ r[p] \in Nat /\ r[s] \in Nat
      BY <1>0, <2>1 DEF Ordered, Closed
    <2>5. r[p] < r[s] /\ (next_task[s] # Idle => r[p] < r[next_task[s]])
      BY <2>1, <2>2, <2>4 DEF OrderAt
    <2>6. ASSUME NEW u \in S PROVE OrderAt(u, r)'
      <3>1. OrderAt(u, r)
        BY DEF Ordered
      <3>2. CASE u = p
        BY <1>0, <2>1, <2>2, <2>4, <2>5, <3>2 DEF OrderAt
      <3>3. CASE u # p
        BY <1>0, <2>2, <3>1, <3>3 DEF OrderAt
      <3>4. QED
        BY <3>2, <3>3
    <2>7. ASSUME NEW u \in S, NEW v \in T \ {s} PROVE NoSkip(u, v, r)'
      <3>1. NoSkip(u, v, r) /\ NoSkip(s, v, r)
        BY <1>0 DEF Ordered
      <3>2. CASE u = p
        BY <1>0, <1>2, <2>1, <2>2, <3>1, <3>2 DEF NoSkip
      <3>3. CASE u # p
        BY <1>0, <2>2, <3>1, <3>3 DEF NoSkip
      <3>4. QED
        BY <3>2, <3>3
    <2>8. QED
      BY <1>0, <2>3, <2>6, <2>7 DEF Ordered
  <1>3. QED
    BY <1>1, <1>2

\* A thread that calls exec takes the place of its leader in the order.
LEMMA ExecOrder ==
  ASSUME ListsInv, NEW s \in Tasks, Exec(s), Closed(Listed),
         NEW r, NEW b, Ordered(Listed, Listed \ {Idle}, r, b)
  PROVE  \E q : Ordered(Listed, Listed \ {Idle}, q, b)'
  <1> USE WalkAssumption DEF Nodes
  <1>1. PICK l, p : /\ l = leader[s] /\ l # s /\ l \in Listed \ {Idle} /\ leader[l] = l /\ s \in Listed
                    /\ \A u \in Listed : leader[u] = l => u \in {l, s}
                    /\ p \in Listed /\ leader[p] = p /\ next_task[p] = l
                    /\ \A u \in Listed : leader[u] = u /\ next_task[u] = l => u = p
                    /\ next_task' = [next_task EXCEPT ![p] = s, ![s] = next_task[l]]
    <2>1. PICK l, p : l = leader[s] /\ p = PrevTask(l)
      OBVIOUS
    <2>2. /\ l # s /\ Group(s) = {l, s} /\ s \in Listed /\ l \in Listed
          /\ next_task' = [next_task EXCEPT ![p] = s, ![s] = next_task[l]]
      BY <2>1 DEF Exec, Group
    <2>3. l \in Leaders \ {Idle}
      BY <2>1, <2>2 DEF ListsInv
    <2>4. p \in Leaders /\ next_task[p] = l
      BY <2>1, <2>3, PrevTaskFound
    <2>5. \A u \in Leaders : next_task[u] = l => u = p
      BY <2>4 DEF ListsInv, Ring
    <2>6. \A u \in Listed : leader[u] = l => u \in {l, s}
      BY <2>1, <2>2 DEF Group
    <2>7. QED
      BY <2>1, <2>2, <2>3, <2>4, <2>5, <2>6 DEF Leaders
  <1>2. /\ Listed' = Listed \ {l} /\ Listed \subseteq Nodes
        /\ leader' = [leader EXCEPT ![s] = s]
        /\ next_thread' = [next_thread EXCEPT ![s] = s]
    BY <1>1 DEF Exec, Leave, Listed, ListsInv, ListTypes
  <1>3. PICK q \in [Nodes -> Nat] : q[s] = r[l] /\ \A u \in Nodes \ {s} : q[u] = r[u]
    <2> DEFINE q == [r EXCEPT ![s] = r[l]]
    <2>1. q \in [Nodes -> Nat] /\ q[s] = r[l] /\ \A u \in Nodes \ {s} : q[u] = r[u]
      BY <1>1, <1>2 DEF Ordered
    <2>2. QED
      BY <2>1
  <1>4. /\ b \in Nat /\ \A u \in Nodes : r[u] \in Nat /\ r[u] < b
        /\ \A u \in Listed : OrderAt(u, r)
        /\ \A u \in Listed, v \in Listed \ {Idle} : NoSkip(u, v, r)
        /\ \A v \in Listed \ {Idle} : r[Idle] < r[leader[v]]
        /\ \A u \in Listed : next_task[u] \in Listed /\ next_thread[u] \in Listed /\ leader[u] \in Listed
        /\ Idle \in Listed /\ leader[Idle] = Idle
    BY DEF Ordered, ListsInv, Listed, Closed
  <1>5. /\ next_task'[p] = s /\ next_task'[s] = next_task[l] /\ p # s /\ p # l
        /\ \A u \in Listed \ {p, s} : next_task'[u] = next_task[u]
        /\ next_thread'[s] = s /\ leader'[s] = s
        /\ \A u \in Listed \ {s} : next_thread'[u] = next_thread[u] /\ leader'[u] = leader[u]
        /\ next_task[l] \notin {l, s} /\ next_task[l] \in Listed
        /\ r[p] < r[l] /\ (next_task[l] # Idle => r[l] < r[next_task[l]])
    <2>1. OrderAt(l, r) /\ OrderAt(p, r) /\ r[l] \in Nat /\ r[p] \in Nat
      BY <1>1, <1>2, <1>4
    <2>2. r[p] < r[l] /\ (next_task[l] # Idle => r[l] < r[next_task[l]])
      BY <1>1, <2>1 DEF OrderAt
    <2>3. next_task[l] # l /\ p # l
      BY <1>1, <2>1, <2>2
    <2>4. next_task[l] # s /\ p # s
      BY <1>1, <2>1 DEF OrderAt
    <2>5. /\ next_task \in [Nodes -> Nodes] /\ leader \in [Nodes -> Nodes]
          /\ next_thread \in [Nodes -> Nodes]
      BY DEF ListsInv, ListTypes
    <2>6. QED
      BY <1>1, <1>2, <1>4, <2>2, <2>3, <2>4, <2>5
  \* The group of any other task is another.
  <1>6. ASSUME NEW u \in Listed \ {l, s}
        PROVE  /\ leader[u] \notin {l, s} /\ next_thread[u] \notin {l, s}
               /\ (leader[u] = u /\ u # p => next_task[u] \notin {l, s})
               /\ next_task[u] # s
    <2>1. leader[u] # l /\ leader[leader[u]] = leader[u]
      <3>1. leader[u] \in Leaders
        BY <1>4 DEF ListsInv, Leaders
      <3>2. QED
        BY <1>1, <3>1 DEF Leaders
    <2>2. leader[u] # s
      BY <1>1, <2>1
    <2>3. OrderAt(u, r)
      BY <1>4
    <2>4. next_thread[u] \notin {l, s}
      BY <1>1, <2>1, <2>2, <2>3 DEF OrderAt
    <2>5. next_task[u] # s
      BY <1>1, <2>3 DEF OrderAt
    <2>6. QED
      BY <1>1, <2>1, <2>2, <2>4, <2>5
  <1>7. ASSUME NEW u \in Listed \ {l} PROVE OrderAt(u, q)'
    <2>1. CASE u = s
      <3>1. leader'[next_task[l]] = next_task[l] /\ q[next_task[l]] = r[next_task[l]]
        <4>1. OrderAt(l, r)
          BY <1>1, <1>4
        <4>2. QED
          BY <1>1, <1>2, <1>3, <1>5, <4>1 DEF OrderAt
      <3>2. QED
        BY <1>3, <1>5, <2>1, <3>1 DEF OrderAt
    <2>2. CASE u = p
      <3>1. /\ OrderAt(p, r) /\ next_thread[p] \notin {l, s} /\ next_thread[p] \in Listed
            /\ leader'[p] = p /\ leader[p] = p
        BY <1>1, <1>4, <1>5, <1>6
      <3>2. /\ q[p] = r[p] /\ q[next_thread[p]] = r[next_thread[p]]
            /\ leader'[next_thread[p]] = leader[next_thread[p]] /\ next_thread'[p] = next_thread[p]
        BY <1>1, <1>2, <1>3, <1>5, <3>1
      <3>3. QED
        BY <1>3, <1>5, <2>2, <3>1, <3>2 DEF OrderAt
    <2>3. CASE u \notin {p, s}
      <3>1. /\ OrderAt(u, r) /\ leader[u] \notin {l, s} /\ next_thread[u] \notin {l, s} /\ next_task[u] # s
            /\ next_task[u] \in Listed /\ next_thread[u] \in Listed /\ leader[u] \in Listed
        BY <1>4, <1>6, <2>3
      <3>2. /\ \A w \in {u, next_task[u], next_thread[u], leader[u]} :
                 w \in Listed \ {s} /\ q[w] = r[w] /\ leader'[w] = leader[w]
            /\ next_task'[u] = next_task[u] /\ next_thread'[u] = next_thread[u]
        BY <1>2, <1>3, <1>5, <2>3, <3>1
      <3>3. QED
        BY <3>1, <3>2 DEF OrderAt
    <2>4. QED
      BY <2>1, <2>2, <2>3
  <1>8. ASSUME NEW u \in Listed \ {l}, NEW v \in Listed \ {l, Idle} PROVE NoSkip(u, v, q)'
    <2>0. NoSkip(u, v, r) /\ NoSkip(u, l, r) /\ NoSkip(l, v, r)
      BY <1>1, <1>4
    <2>1. CASE u = s
      <3>1. leader'[v] = s => v = s
        BY <1>1, <1>5, <1>6
      <3>2. v # s => leader'[v] = leader[v] /\ q[v] = r[v]
        BY <1>2, <1>3, <1>5
      <3>3. q[next_task[l]] = r[next_task[l]]
        BY <1>2, <1>3, <1>5
      <3>4. CASE v = s
        <4>1. ~ (q[s] < q[s])
          BY <1>1, <1>2, <1>3, <1>4
        <4>2. QED
          BY <2>1, <3>4, <4>1 DEF NoSkip
      <3>5. CASE v # s
        BY <1>1, <1>3, <1>5, <2>0, <2>1, <3>1, <3>2, <3>3, <3>5 DEF NoSkip
      <3>6. QED
        BY <3>4, <3>5
    <2>2. CASE u # s /\ v = s
      <3>1. leader'[u] # s /\ leader'[u] = leader[u] /\ q[u] = r[u] /\ leader'[s] = s /\ q[s] = r[l]
        BY <1>2, <1>3, <1>5, <1>6, <2>2
      <3>2. CASE u = p
        <4>1. next_task'[u] = s /\ s # Idle
          BY <1>5, <3>2
        <4>2. QED
          BY <2>2, <3>1, <4>1 DEF NoSkip
      <3>3. CASE u # p
        <4>1. next_task'[u] = next_task[u] /\ (leader[u] = u => next_task[u] \notin {l, s})
          BY <1>5, <1>6, <2>2, <3>3
        <4>2. leader[u] = u => q[next_task[u]] = r[next_task[u]]
          BY <1>2, <1>3, <1>4, <4>1
        <4>3. QED
          BY <1>1, <2>0, <2>2, <3>1, <4>1, <4>2 DEF NoSkip
      <3>4. QED
        BY <3>2, <3>3
    <2>3. CASE u # s /\ v # s
      <3>1. /\ leader'[u] = leader[u] /\ leader'[v] = leader[v] /\ q[u] = r[u] /\ q[v] = r[v]
            /\ next_thread'[u] = next_thread[u] /\ next_thread[u] \notin {l, s}
            /\ q[next_thread[u]] = r[next_thread[u]]
        BY <1>2, <1>3, <1>4, <1>5, <1>6, <2>3
      <3>2. CASE u = p
        <4>1. leader[v] = v => v # l /\ next_task'[u] = s /\ q[s] = r[l] /\ s # Idle
          BY <1>3, <1>5, <3>2
        <4>2. QED
          BY <1>1, <2>0, <3>1, <3>2, <4>1 DEF NoSkip
      <3>3. CASE u # p
        <4>1. next_task'[u] = next_task[u] /\ next_task[u] # s /\ q[next_task[u]] = r[next_task[u]]
          BY <1>2, <1>3, <1>4, <1>5, <1>6, <2>3, <3>3
        <4>2. QED
          BY <2>0, <3>1, <4>1 DEF NoSkip
      <3>4. QED
        BY <3>2, <3>3
    <2>4. QED
      BY <2>1, <2>2, <2>3
  <1>9. ASSUME NEW v \in Listed \ {l, Idle} PROVE q[Idle] < q[leader'[v]]
    <2>1. q[Idle] = r[Idle]
      BY <1>3
    <2>2. CASE v = s
      BY <1>1, <1>3, <1>4, <1>5, <2>1, <2>2
    <2>3. CASE v # s
      <3>1. leader'[v] = leader[v] /\ leader[v] \in Listed \ {s}
        BY <1>4, <1>5, <1>6, <2>3
      <3>2. QED
        BY <1>2, <1>3, <1>4, <2>1, <3>1
    <2>4. QED
      BY <2>2, <2>3
  <1>10. \A u \in Nodes : q[u] < b
    BY <1>1, <1>2, <1>3, <1>4
  <1>11. QED
    BY <1>2, <1>3, <1>4, <1>7, <1>8, <1>9, <1>10 DEF Ordered

\* The first process is in order.
LEMMA InitOrder ==
  ASSUME Init
  PROVE  \E r, b : Ordered(Listed, Listed \ {Idle}, r, b)
  <1> USE WalkAssumption DEF Nodes
  <1>1. PICK n \in Nat \ {0} : \E k \in [Born -> 1..n] :
          /\ \A i \in 1..n : \E s \in Born : k[s] = i
          /\ \A u, v \in Born : k[u] = k[v] => u = v
          /\ First \in Born /\ k[First] = 1
          /\ \A s \in Born : After(s) \in Born /\ k[After(s)] = IF k[s] = n THEN 1 ELSE k[s] + 1
    BY FirstPlaces
  <1>2. PICK k \in [Born -> 1..n] :
          /\ \A u, v \in Born : k[u] = k[v] => u = v
          /\ First \in Born /\ k[First] = 1
          /\ \A s \in Born : After(s) \in Born /\ k[After(s)] = IF k[s] = n THEN 1 ELSE k[s] + 1
    BY <1>1
  <1>3. PICK r \in [Nodes -> Nat] : \A u \in Nodes : r[u] = IF u \in Born THEN k[u] ELSE 0
    <2> DEFINE r == [u \in Nodes |-> IF u \in Born THEN k[u] ELSE 0]
    <2>1. r \in [Nodes -> Nat] /\ \A u \in Nodes : r[u] = IF u \in Born THEN k[u] ELSE 0
      OBVIOUS
    <2>2. QED
      BY <2>1
  <1>4. /\ Listed = Born \cup {Idle} /\ Idle \notin Born /\ Born \subseteq Tasks
        /\ \A s \in Born : leader[s] = First /\ next_task[s] = Idle /\ next_thread[s] = After(s)
        /\ leader[Idle] = Idle /\ next_task[Idle] = First /\ next_thread[Idle] = Idle
        /\ \A s \in Born : r[s] = k[s] /\ k[s] \in 1..n
        /\ r[Idle] = 0
    BY <1>3, FirstRing DEF Init, Listed
  <1>5. ASSUME NEW u \in Nodes PROVE r[u] < n + 1
    <2>1. (r[u] = k[u] /\ k[u] \in 1..n) \/ r[u] = 0
      BY <1>3
    <2>2. QED
      BY <2>1
  <1>6. ASSUME NEW u \in Listed PROVE OrderAt(u, r)
    <2>1. CASE u = Idle
      BY <1>2, <1>4, <2>1 DEF OrderAt
    <2>2. CASE u \in Born
      <3>1. After(u) \in Born /\ (After(u) # First => r[u] < r[After(u)])
        BY <1>2, <1>4, <2>2
      <3>2. u # First => r[First] < r[u]
        BY <1>2, <1>4, <2>2
      <3>3. QED
        BY <1>2, <1>4, <2>2, <3>1, <3>2 DEF OrderAt
    <2>3. QED
      BY <1>4, <2>1, <2>2
  <1>7. ASSUME NEW u \in Listed, NEW v \in Listed \ {Idle} PROVE NoSkip(u, v, r)
    <2>1. CASE u = Idle
      BY <1>2, <1>4, <2>1 DEF NoSkip
    <2>2. CASE u \in Born
      <3>1. leader[u] = u /\ leader[v] = v => ~ (r[u] < r[v])
        BY <1>4, <2>2
      <3>2. ASSUME r[u] < r[v]
            PROVE  After(u) # First /\ (After(u) = v \/ r[After(u)] < r[v])
        <4>1. v \in Born /\ k[u] \in 1..n /\ k[v] \in 1..n /\ k[u] < k[v]
          BY <1>4, <2>2, <3>2
        <4>2. k[u] # n /\ k[u] + 1 # 1 /\ (k[v] = k[u] + 1 \/ k[u] + 1 < k[v])
          BY <4>1
        <4>3. After(u) \in Born /\ k[After(u)] = k[u] + 1
          BY <1>2, <2>2, <4>2
        <4>4. After(u) # First
          BY <1>2, <4>2, <4>3
        <4>5. k[v] = k[u] + 1 => After(u) = v
          BY <1>2, <4>1, <4>3
        <4>6. r[After(u)] = k[After(u)] /\ r[v] = k[v]
          BY <1>4, <4>1, <4>3
        <4>7. QED
          BY <4>2, <4>3, <4>4, <4>5, <4>6
      <3>3. QED
        BY <1>4, <2>2, <3>1, <3>2 DEF NoSkip
    <2>3. QED
      BY <1>4, <2>1, <2>2
  <1>8. \A v \in Listed \ {Idle} : r[Idle] < r[leader[v]]
    BY <1>2, <1>4
  <1>9. Ordered(Listed, Listed \ {Idle}, r, n + 1)
    BY <1>5, <1>6, <1>7, <1>8 DEF Ordered
  <1>10. QED
    BY <1>9

\* What has been or may have been in the lists since the walk began.
Known == seen \cup {Idle}

\* The walk is at a task of the process g.
AtTask == {"thread", "lock", "name", "name2", "relock", "count"}

\* The walk has passed c.
Behind(c, r) ==
  \/ r[leader[c]] < r[g]
  \/ /\ leader[c] = g
     /\ pc = "thread" => r[c] <= r[t]
     /\ pc \in AtTask \ {"thread"} => r[c] < r[t]

\* It has yet to come to s.
Ahead(s, r) ==
  \/ r[g] < r[leader[s]]
  \/ /\ pc \in AtTask /\ leader[s] = g
     /\ r[t] < r[s] \/ (s = t /\ pc # "thread")

\* C is what the walk has counted.
Counted(C, r) ==
  /\ C \subseteq seen
  /\ total = Cardinality(C) + (IF walk = "rcu" THEN 1 ELSE 0)
  /\ pc \in AtTask \cup {"process"} =>
       /\ g \in Known /\ t \in Known /\ leader[g] = g
       /\ pc \in AtTask => leader[t] = g /\ g # Idle
       /\ \A c \in C : Behind(c, r)
       /\ walk # "prcs" => \A s \in stayed : s \in C \/ Ahead(s, r)
  /\ pc = "done" /\ walk # "prcs" => stayed \subseteq C

\* The tasks that are listed are known, and nothing leads away from what is known;
\* the leader of a task that has stayed has stayed.
History ==
  /\ Listed \subseteq Known /\ stayed \subseteq Listed \ {Idle}
  /\ Closed(Known)
  /\ \A u \in Known : life[u] # "unborn"
  /\ \A s \in stayed : leader[s] \in stayed

CountInv ==
  /\ pc = "out" =>
       /\ g = Idle /\ t = Idle /\ total = 0
       /\ \E r, b : Ordered(Listed, Listed \ {Idle}, r, b)
  /\ pc # "out" /\ ~execed =>
       /\ History
       /\ \E r, b, C : Ordered(Known, stayed, r, b) /\ Counted(C, r)

\* What other tasks do changes nothing in what the walk has passed.
LEMMA CountedKeeps ==
  ASSUME NEW C, NEW r, NEW q, Counted(C, r), Closed(Known), stayed \subseteq Known,
         UNCHANGED <<walk, pc, g, t, total>>, seen \subseteq seen', stayed' \subseteq stayed,
         \A u \in Known : q[u] = r[u] /\ leader'[u] = leader[u]
  PROVE  Counted(C, q)'
  <1>1. C \subseteq seen /\ C \subseteq Known /\ Known \subseteq Known'
    BY DEF Counted, Known
  <1>2. ASSUME pc \in AtTask \cup {"process"}
        PROVE  /\ g \in Known' /\ t \in Known' /\ leader'[g] = g
               /\ pc \in AtTask => leader'[t] = g /\ g # Idle
               /\ \A c \in C : Behind(c, q)'
               /\ walk # "prcs" => \A s \in stayed' : s \in C \/ Ahead(s, q)'
    <2>1. /\ g \in Known /\ t \in Known /\ leader[g] = g
          /\ pc \in AtTask => leader[t] = g /\ g # Idle
      BY <1>2 DEF Counted
    <2>2. ASSUME NEW c \in C PROVE Behind(c, q)'
      <3>1. Behind(c, r) /\ c \in Known /\ leader[c] \in Known
        BY <1>1, <1>2 DEF Counted, Closed
      <3>2. QED
        BY <2>1, <3>1 DEF Behind
    <2>3. ASSUME walk # "prcs", NEW s \in stayed' PROVE s \in C \/ Ahead(s, q)'
      <3>1. (s \in C \/ Ahead(s, r)) /\ s \in Known /\ leader[s] \in Known
        BY <1>2, <2>3 DEF Counted, Closed
      <3>2. QED
        BY <2>1, <3>1 DEF Ahead
    <2>4. QED
      BY <1>1, <2>1, <2>2, <2>3
  <1>3. pc = "done" /\ walk # "prcs" => stayed' \subseteq C
    BY DEF Counted
  <1>4. QED
    BY <1>1, <1>2, <1>3 DEF Counted

\* An order is about the lists only.
LEMMA SameOrder ==
  ASSUME NEW S, NEW T, NEW r, NEW b, Ordered(S, T, r, b), UNCHANGED listvars
  PROVE  Ordered(S, T, r, b)'
  BY DEF Ordered, OrderAt, NoSkip, listvars

\* The listed tasks lead to one another.
LEMMA ClosedLists ==
  ASSUME ListsInv
  PROVE  Closed(Listed)
  <1>1. \A s \in Listed : leader[s] \in Listed
    BY DEF ListsInv, Leaders
  <1>2. QED
    BY <1>1, ListedClosed DEF Closed

\* Before the walk the other tasks keep the order of the lists.
LEMMA OrderBefore ==
  ASSUME ListsInv, ListsInv', NEW s \in Tasks, Fork(s) \/ Clone(s) \/ Unlink(s) \/ Exec(s) \/ Free(s),
         NEW r, NEW b, Ordered(Listed, Listed \ {Idle}, r, b)
  PROVE  \E q, a : Ordered(Listed, Listed \ {Idle}, q, a)'
  <1> USE WalkAssumption DEF Nodes
  <1>1. PICK S, T : S = Listed /\ T = Listed \ {Idle}
    OBVIOUS
  <1>2. /\ S \in SUBSET Nodes /\ T \in SUBSET (S \ {Idle}) /\ Listed \subseteq S /\ Closed(S)
        /\ Ordered(S, T, r, b) /\ T = S \ {Idle}
    BY <1>1, ClosedLists DEF Listed
  <1>3. CASE Fork(s) \/ Clone(s)
    <2>1. s \notin S /\ Listed' = S \cup {s} /\ Listed' \ {Idle} = T \cup {s}
      BY <1>1, <1>3 DEF Listed, Fork, Clone, ListsInv, ListTypes
    <2>2. PICK q : Ordered(S \cup {s}, T \cup {s}, q, b + 1)'
      BY <1>1, <1>2, <1>3, <2>1, ForkOrder, CloneOrder
    <2>3. Ordered(Listed, Listed \ {Idle}, q, b + 1)'
      BY <2>1, <2>2 DEF Ordered
    <2>4. QED
      BY <2>3
  <1>4. CASE Unlink(s)
    <2>1. Listed' \subseteq S /\ Listed' \ {Idle} \subseteq T \ {s}
      BY <1>1, <1>4 DEF Listed, Unlink, Leave, ListsInv, ListTypes
    <2>2. Ordered(S, T \ {s}, r, b)'
      BY <1>2, <1>4, UnlinkOrder
    <2>3. Ordered(Listed, Listed \ {Idle}, r, b)'
      BY <2>1, <2>2 DEF Ordered
    <2>4. QED
      BY <2>3
  <1>5. CASE Exec(s)
    <2>1. PICK q : Ordered(Listed, Listed \ {Idle}, q, b)'
      BY <1>5, ExecOrder, ClosedLists
    <2>2. QED
      BY <2>1
  <1>6. CASE Free(s)
    <2>1. Listed' = S
      BY <1>1, <1>6 DEF Free, Listed, ListsInv, ListTypes
    <2>2. Ordered(S, T, r, b)'
      BY <1>2, <1>6, SameOrder DEF Free
    <2>3. Ordered(Listed, Listed \ {Idle}, r, b)'
      BY <1>2, <2>1, <2>2 DEF Ordered
    <2>4. QED
      BY <2>3
  <1>7. QED
    BY <1>3, <1>4, <1>5, <1>6

\* During the walk they leave it in order, and what it has counted counted.
LEMMA OrderDuring ==
  ASSUME ListsInv, ListsInv', stayed \subseteq Tasks,
         NEW s \in Tasks, Fork(s) \/ Clone(s) \/ Unlink(s) \/ Free(s),
         Known \subseteq Nodes, History,
         NEW r, NEW b, NEW C, Ordered(Known, stayed, r, b), Counted(C, r)
  PROVE  History' /\ \E q, a, D : Ordered(Known, stayed, q, a)' /\ Counted(D, q)'
  <1> USE WalkAssumption DEF Nodes
  <1>1. PICK S, T : S = Known /\ T = stayed
    OBVIOUS
  <1>2. /\ S \in SUBSET Nodes /\ T \in SUBSET (S \ {Idle}) /\ Listed \subseteq S /\ Closed(S)
        /\ Ordered(S, T, r, b) /\ T \subseteq Listed /\ Idle \in S
        /\ \A u \in S : life[u] # "unborn"
        /\ \A v \in T : leader[v] \in T
    BY <1>1 DEF History, Known
  <1>3. UNCHANGED <<walk, pc, g, t, total>>
    BY DEF Fork, Clone, Unlink, Leave, Free, Others
  <1>4. CASE Fork(s) \/ Clone(s)
    <2>1. /\ s \notin S /\ Listed' = Listed \cup {s} /\ Known' = S \cup {s} /\ stayed' = T
          /\ life' = [life EXCEPT ![s] = "listed"]
      BY <1>1, <1>2, <1>4 DEF Listed, Fork, Clone, ListsInv, ListTypes, Known
    <2>2. PICK q : Agree(q, r, S) /\ Ordered(S \cup {s}, T, q, b + 1)'
      <3>1. CASE Fork(s)
        <4>1. \E q : /\ Agree(q, r, S)
                     /\ Ordered(S \cup {s}, T, q, b + 1)'
                     /\ S = Listed /\ T = S \ {Idle} => Ordered(S \cup {s}, T \cup {s}, q, b + 1)'
          <5>1. /\ S \in SUBSET Nodes /\ Listed \subseteq S /\ Closed(S) /\ s \notin S
                /\ T \in SUBSET (S \ {Idle}) /\ Ordered(S, T, r, b)
            BY <1>2, <2>1
          <5>2. QED
            BY <3>1, <5>1, ForkOrder
        <4>2. QED
          BY <4>1
      <3>2. CASE Clone(s)
        <4>1. \E q : /\ Agree(q, r, S)
                     /\ Ordered(S \cup {s}, T, q, b + 1)'
                     /\ S = Listed /\ T = S \ {Idle} => Ordered(S \cup {s}, T \cup {s}, q, b + 1)'
          <5>1. /\ S \in SUBSET Nodes /\ Listed \subseteq S /\ Closed(S) /\ s \notin S
                /\ T \in SUBSET (S \ {Idle}) /\ Ordered(S, T, r, b)
            BY <1>2, <2>1
          <5>2. QED
            BY <3>2, <5>1, CloneOrder
        <4>2. QED
          BY <4>1
      <3>3. QED
        BY <1>4, <3>1, <3>2
    <2>3. Ordered(Known, stayed, q, b + 1)'
      BY <2>1, <2>2 DEF Ordered
    <2>4. \A u \in S : leader'[u] = leader[u]
      BY <1>2, <1>4, <2>1 DEF Fork, Clone, ListsInv, ListTypes
    <2>5. Counted(C, q)'
      BY <1>1, <1>2, <1>3, <1>4, <2>1, <2>2, <2>4, CountedKeeps DEF Fork, Clone, Agree
    <2>6. Closed(S \cup {s})'
      <3>1. CASE Fork(s)
        <4>1. /\ leader'[s] = s /\ next_task'[s] = Idle /\ next_thread'[s] = s
              /\ next_thread' = next_thread
          BY <3>1 DEF Fork, ListsInv, ListTypes
        <4>2. \A u \in S : next_task'[u] \in {next_task[u], s}
          BY <1>2, <2>1, <3>1 DEF Fork, ListsInv, ListTypes
        <4>3. QED
          BY <1>2, <2>4, <4>1, <4>2 DEF Closed
      <3>2. CASE Clone(s)
        <4>1. PICK l \in Listed \ {Idle} :
                /\ leader' = [leader EXCEPT ![s] = l]
                /\ next_thread' = [next_thread EXCEPT ![PrevThread(l)] = s, ![s] = l]
          BY <3>2 DEF Clone
        <4>2. /\ leader'[s] = l /\ next_thread'[s] = l /\ next_task'[s] = Idle /\ next_task' = next_task
              /\ \A u \in S : next_thread'[u] \in {next_thread[u], s}
          <5>1. PICK p : p = PrevThread(l)
            OBVIOUS
          <5>2. next_thread' = [next_thread EXCEPT ![p] = s, ![s] = l]
            BY <4>1, <5>1
          <5>3. QED
            BY <1>2, <2>1, <3>2, <4>1, <5>2 DEF Clone, ListsInv, ListTypes
        <4>3. QED
          BY <1>2, <2>4, <4>2 DEF Closed
      <3>3. QED
        BY <1>4, <3>1, <3>2
    <2>7. \A u \in S \cup {s} : life'[u] # "unborn"
      BY <1>2, <2>1 DEF ListsInv, ListTypes
    <2>8. \A v \in T : leader'[v] \in T
      BY <1>2, <2>4
    <2>9. History'
      <3>1. Closed(Known)'
        BY <2>1, <2>6 DEF Closed
      <3>2. QED
        BY <1>2, <2>1, <2>7, <2>8, <3>1 DEF History
    <2>10. QED
      BY <2>3, <2>5, <2>9
  <1>5. CASE Unlink(s)
    <2>1. /\ Listed' = Listed \ {s} /\ Known' = S /\ stayed' = T \ {s} /\ leader' = leader
          /\ life' = [life EXCEPT ![s] = "unlinked"] /\ seen' = seen
      BY <1>1, <1>5 DEF Listed, Unlink, Leave, ListsInv, ListTypes, Known
    <2>2. Ordered(S, T \ {s}, r, b)' /\ Closed(S)'
      BY <1>2, <1>5, UnlinkOrder
    <2>3. Ordered(Known, stayed, r, b)'
      BY <2>1, <2>2 DEF Ordered
    <2>4. Counted(C, r)'
      BY <1>1, <1>2, <1>3, <2>1, CountedKeeps
    <2>5. ASSUME NEW v \in T \ {s} PROVE leader[v] \in T \ {s}
      <3>1. leader[v] = s => Group(s) # {s}
        <4>1. ASSUME leader[v] = s PROVE v \in Group(s)
          <5>1. leader[s] = s
            BY <1>2, <4>1 DEF ListsInv, Leaders
          <5>2. QED
            BY <1>2, <4>1, <5>1 DEF Group
        <4>2. QED
          BY <4>1
      <3>2. leader[v] = s => leader[s] = s
        BY <1>2 DEF ListsInv, Leaders
      <3>3. QED
        BY <1>2, <1>5, <3>1, <3>2 DEF Unlink
    <2>6. History'
      <3>1. Closed(Known)'
        BY <2>1, <2>2 DEF Closed
      <3>2. \A u \in S : life'[u] # "unborn"
        BY <1>2, <2>1 DEF ListsInv, ListTypes
      <3>3. Listed' \subseteq S /\ T \ {s} \subseteq Listed' \ {Idle}
        BY <1>2, <2>1
      <3>4. QED
        BY <2>1, <2>5, <3>1, <3>2, <3>3 DEF History
    <2>7. QED
      BY <2>3, <2>4, <2>6
  <1>6. CASE Free(s)
    <2>1. /\ Listed' = Listed /\ Known' = S /\ stayed' = T /\ UNCHANGED listvars
          /\ life' = [life EXCEPT ![s] = "freed"] /\ seen' = seen /\ leader' = leader
      BY <1>1, <1>6 DEF Listed, Free, ListsInv, ListTypes, Known, hisvars, listvars
    <2>2. Ordered(S, T, r, b)'
      BY <1>2, <2>1, SameOrder
    <2>3. Ordered(Known, stayed, r, b)'
      BY <2>1, <2>2 DEF Ordered
    <2>4. Counted(C, r)'
      BY <1>1, <1>2, <1>3, <2>1, CountedKeeps
    <2>5. Closed(Known)' /\ \A u \in S : life'[u] # "unborn"
      BY <1>2, <2>1 DEF Closed, listvars, ListsInv, ListTypes
    <2>6. History'
      BY <1>2, <2>1, <2>5 DEF History
    <2>7. QED
      BY <2>3, <2>4, <2>6
  <1>7. QED
    BY <1>4, <1>5, <1>6

\* The walk begins with nothing counted and everything ahead.
LEMMA CountBegins ==
  ASSUME ListsInv, Begin, g = Idle, t = Idle,
         NEW r, NEW b, Ordered(Listed, Listed \ {Idle}, r, b)
  PROVE  History' /\ \E q, a, D : Ordered(Known, stayed, q, a)' /\ Counted(D, q)'
  <1> USE WalkAssumption DEF Nodes
  <1>1. PICK S, T : S = Listed /\ T = Listed \ {Idle}
    OBVIOUS
  <1>2. /\ Listed' = S /\ Known' = S /\ stayed' = T /\ seen' = T /\ Idle \in S /\ UNCHANGED <<listvars, life>>
        /\ g' = Idle /\ t' = Idle /\ pc' = "process" /\ leader' = leader /\ T = S \ {Idle}
        /\ total' = (IF walk = "rcu" THEN 1 ELSE 0) /\ walk' = walk
    BY <1>1 DEF Begin, Start, Listed, Known, ListsInv, taskvars, listvars
  <1>3. Ordered(S, T, r, b)' /\ Closed(S)'
    <2>1. Ordered(S, T, r, b) /\ Closed(S)
      BY <1>1, ClosedLists
    <2>2. QED
      BY <1>2, <2>1, SameOrder DEF Closed, listvars
  <1>4. Ordered(Known, stayed, r, b)' /\ Closed(Known)'
    BY <1>2, <1>3 DEF Ordered, Closed
  <1>5. History'
    <2>1. \A u \in S : life'[u] # "unborn"
      BY <1>1, <1>2 DEF Listed
    <2>2. \A s \in T : leader[s] \in T
      BY <1>1 DEF ListsInv, Leaders
    <2>3. QED
      BY <1>2, <1>4, <2>1, <2>2 DEF History
  <1>6. Counted({}, r)'
    <2>1. Cardinality({}) + (IF walk = "rcu" THEN 1 ELSE 0) = total'
      BY <1>2, FS_EmptySet
    <2>2. \A s \in T : Ahead(s, r)'
      BY <1>1, <1>2 DEF Ordered, Ahead
    <2>3. leader[Idle] = Idle /\ "process" \notin AtTask /\ "process" # "done"
      BY DEF ListsInv, AtTask
    <2>4. QED
      BY <1>2, <2>1, <2>2, <2>3 DEF Counted
  <1>7. QED
    BY <1>4, <1>5, <1>6

\* The walk counts whatever it comes to once, and comes to all that stays.
LEMMA CountSteps ==
  ASSUME WalkInv, Walker, pc # "out", Known \subseteq Nodes, History,
         NEW r, NEW b, NEW C, Ordered(Known, stayed, r, b), Counted(C, r)
  PROVE  \E D : Counted(D, r)'
  <1> USE WalkAssumption DEF Nodes
  <1>1. /\ UNCHANGED <<leader, next_task, next_thread, stayed, seen, walk>> /\ Known' = Known
        /\ C \subseteq seen /\ C \subseteq Known /\ stayed \subseteq Known
        /\ seen \subseteq Tasks /\ Idle \in Known /\ Idle \notin stayed
    BY DEF Walker, Begin, Start, Oops, NextProcess, NextThread, End, TaskLock, ReadName,
           ReadName2, Relock, Count, Step, taskvars, listvars, hisvars, Counted, Known,
           WalkInv, WalkTypes, History
  <1>2. /\ \A u \in Known : OrderAt(u, r) /\ r[u] \in Nat /\ leader[u] \in Known
        /\ \A u \in Known : next_task[u] \in Known /\ next_thread[u] \in Known
        /\ \A u \in Known, v \in stayed : NoSkip(u, v, r)
        /\ \A v \in stayed : leader[v] \in stayed /\ leader[leader[v]] = leader[v]
    <2>1. \A v \in stayed : leader[leader[v]] = leader[v]
      BY DEF History, WalkInv, KernelInv, ListsInv, Leaders
    <2>2. QED
      BY <2>1 DEF Ordered, History, Closed
  <1>3. ASSUME pc \in AtTask \cup {"process"}
        PROVE  /\ g \in Known /\ t \in Known /\ leader[g] = g
               /\ pc \in AtTask => leader[t] = g /\ g # Idle
               /\ \A c \in C : Behind(c, r)
               /\ walk # "prcs" => \A s \in stayed : s \in C \/ Ahead(s, r)
    BY <1>3 DEF Counted
  <1>4. total = Cardinality(C) + (IF walk = "rcu" THEN 1 ELSE 0)
    BY DEF Counted
  <1>5. CASE Oops
    <2>1. pc' = "oops" /\ total' = total
      BY <1>5 DEF Oops
    <2>2. Counted(C, r)'
      BY <1>1, <1>4, <2>1 DEF Counted, AtTask
    <2>3. QED
      BY <2>2
  <1>6. CASE NextProcess
    <2>1. /\ pc = "process" /\ next_task[g] # Idle /\ g' = next_task[g] /\ t' = next_task[g]
          /\ pc' \in {"name", "lock"} /\ total' = total
      BY <1>6 DEF NextProcess, Step
    <2>2. PICK h : h = next_task[g]
      OBVIOUS
    <2>3. /\ g \in Known /\ h \in Known /\ leader[g] = g /\ h # Idle /\ leader[h] = h /\ r[g] < r[h]
          /\ r[g] \in Nat /\ r[h] \in Nat
      BY <1>2, <1>3, <2>1, <2>2 DEF OrderAt
    <2>4. ASSUME NEW c \in C PROVE Behind(c, r)'
      <3>1. r[leader[c]] < r[g] \/ leader[c] = g
        BY <1>3, <2>1 DEF Behind
      <3>2. r[leader[c]] < r[h]
        BY <1>1, <1>2, <2>3, <3>1
      <3>3. QED
        BY <1>1, <2>1, <2>2, <3>2 DEF Behind
    <2>5. ASSUME walk # "prcs", NEW s \in stayed PROVE s \in C \/ Ahead(s, r)'
      <3>1. s \in C \/ r[g] < r[leader[s]]
        BY <1>3, <2>1, <2>5 DEF Ahead, AtTask
      <3>2. ASSUME r[g] < r[leader[s]] PROVE leader[s] = h \/ r[h] < r[leader[s]]
        <4>1. NoSkip(g, leader[s], r) /\ leader[leader[s]] = leader[s]
          BY <1>2, <2>3
        <4>2. QED
          BY <2>2, <2>3, <3>2, <4>1 DEF NoSkip
      <3>3. leader[s] = h => s = h \/ r[h] < r[s]
        BY <1>1, <1>2 DEF OrderAt
      <3>4. pc' \in AtTask /\ pc' # "thread" /\ g' = h /\ t' = h
        BY <2>1, <2>2 DEF AtTask
      <3>5. QED
        BY <1>1, <3>1, <3>2, <3>3, <3>4 DEF Ahead
    <2>6. Counted(C, r)'
      <3>1. pc' # "done" /\ g' = h /\ t' = h
        BY <2>1, <2>2
      <3>2. QED
        BY <1>1, <1>4, <2>1, <2>3, <2>4, <2>5, <3>1 DEF Counted
    <2>7. QED
      BY <2>6
  <1>7. CASE End
    <2>1. /\ pc = "process" /\ next_task[g] = Idle /\ pc' = "done" /\ total' = total
      BY <1>7 DEF End, Step
    <2>2. ASSUME walk # "prcs", NEW s \in stayed PROVE s \in C
      <3>1. s \in C \/ r[g] < r[leader[s]]
        BY <1>3, <2>1, <2>2 DEF Ahead, AtTask
      <3>2. g \in Known /\ leader[g] = g
        BY <1>3, <2>1
      <3>3. NoSkip(g, leader[s], r) /\ leader[leader[s]] = leader[s]
        BY <1>2, <3>2
      <3>4. QED
        BY <2>1, <3>1, <3>2, <3>3 DEF NoSkip
    <2>3. Counted(C, r)'
      BY <1>1, <1>4, <2>1, <2>2 DEF Counted, AtTask
    <2>4. QED
      BY <2>3
  <1>8. CASE NextThread
    <2>1. /\ pc = "thread" /\ t' = next_thread[t] /\ g' = g /\ total' = total
          /\ pc' = IF next_thread[t] = g THEN "process" ELSE "lock"
      BY <1>8 DEF NextThread, Step
    <2>2. PICK h : h = next_thread[t]
      OBVIOUS
    <2>3. /\ g \in Known /\ t \in Known /\ h \in Known /\ leader[g] = g /\ leader[t] = g /\ g # Idle
          /\ leader[h] = g /\ r[t] \in Nat /\ r[h] \in Nat /\ r[g] \in Nat
          /\ (h # g => r[t] < r[h]) /\ (t # g => r[g] < r[t])
      <3>1. g \in Known /\ t \in Known /\ leader[g] = g /\ leader[t] = g /\ g # Idle
        BY <1>3, <2>1 DEF AtTask
      <3>2. OrderAt(t, r) /\ h \in Known
        BY <1>2, <2>2, <3>1
      <3>3. QED
        BY <1>2, <2>2, <3>1, <3>2 DEF OrderAt
    <2>4. ASSUME NEW c \in C PROVE Behind(c, r)'
      <3>1. r[leader[c]] < r[g] \/ (leader[c] = g /\ r[c] <= r[t])
        <4>1. Behind(c, r)
          BY <1>3, <2>1 DEF AtTask
        <4>2. QED
          BY <2>1, <4>1 DEF Behind
      <3>2. r[c] \in Nat
        BY <1>1, <1>2
      <3>3. CASE h = g
        BY <1>1, <2>1, <2>2, <3>1, <3>3 DEF Behind, AtTask
      <3>4. CASE h # g
        <4>1. r[leader[c]] < r[g] \/ (leader[c] = g /\ r[c] < r[h])
          BY <2>3, <3>1, <3>2, <3>4
        <4>2. QED
          BY <1>1, <2>1, <2>2, <3>4, <4>1 DEF Behind
      <3>5. QED
        BY <3>3, <3>4
    <2>5. ASSUME walk # "prcs", NEW s \in stayed PROVE s \in C \/ Ahead(s, r)'
      <3>1. s \in C \/ r[g] < r[leader[s]] \/ (leader[s] = g /\ r[t] < r[s])
        BY <1>3, <2>1, <2>5 DEF Ahead, AtTask
      <3>2. ASSUME leader[s] = g, r[t] < r[s] PROVE h # g /\ (h = s \/ r[h] < r[s])
        <4>1. NoSkip(t, s, r)
          BY <1>2, <2>3
        <4>2. QED
          BY <2>2, <2>3, <3>2, <4>1 DEF NoSkip
      <3>3. CASE h = g
        BY <1>1, <2>1, <3>1, <3>2, <3>3 DEF Ahead
      <3>4. CASE h # g
        <4>1. pc' = "lock" /\ t' = h /\ "lock" \in AtTask
          BY <2>1, <2>2, <3>4 DEF AtTask
        <4>2. QED
          BY <1>1, <2>1, <3>1, <3>2, <4>1 DEF Ahead
      <3>5. QED
        BY <3>3, <3>4
    <2>6. Counted(C, r)'
      <3>1. pc' # "done" /\ g' = g /\ t' = h
        BY <2>1, <2>2
      <3>2. QED
        BY <1>1, <1>4, <2>1, <2>3, <2>4, <2>5, <3>1 DEF Counted
    <2>7. QED
      BY <2>6
  <1>9. CASE Count
    <2>1. /\ pc = "count" /\ t' = t /\ g' = g /\ total' = (IF total < MaxTotal THEN total + 1 ELSE total)
          /\ pc' = IF walk = "prcs" THEN "process" ELSE "thread"
      BY <1>9 DEF Count, Step
    <2>2. /\ g \in Known /\ t \in Known /\ leader[g] = g /\ leader[t] = g /\ g # Idle
          /\ r[t] \in Nat /\ r[g] \in Nat
      BY <1>2, <1>3, <2>1 DEF AtTask
    <2>3. /\ t \notin C
          /\ \A c \in C : r[leader[c]] < r[g] \/ (leader[c] = g /\ r[c] < r[t])
      <3>1. \A c \in C : r[leader[c]] < r[g] \/ (leader[c] = g /\ r[c] < r[t])
        BY <1>3, <2>1 DEF Behind, AtTask
      <3>2. QED
        BY <2>2, <3>1
    <2>4. t \in seen
      <3>1. t # Idle
        BY <2>2 DEF WalkInv, KernelInv, ListsInv
      <3>2. QED
        BY <2>2, <3>1 DEF Known
    <2>5. IsFiniteSet(C) /\ Cardinality(C) \in Nat /\ Cardinality(C) <= Cardinality(Tasks)
      BY <1>1, FS_Subset, FS_CardinalityType
    <2>6. Cardinality(C \cup {t}) = Cardinality(C) + 1
      BY <2>3, <2>5, FS_AddElement
    <2>7. total < MaxTotal
      BY <1>4, <2>5, FS_CardinalityType DEF MaxTotal
    <2>8. total' = Cardinality(C \cup {t}) + (IF walk = "rcu" THEN 1 ELSE 0)
      BY <1>4, <2>1, <2>5, <2>6, <2>7
    <2>9. ASSUME NEW c \in C \cup {t} PROVE Behind(c, r)'
      <3>1. /\ r[leader[c]] < r[g] \/ (leader[c] = g /\ r[c] <= r[t])
        <4>1. r[c] \in Nat
          BY <1>1, <1>2, <2>2
        <4>2. QED
          BY <2>2, <2>3, <4>1
      <3>2. QED
        BY <1>1, <2>1, <3>1 DEF Behind, AtTask
    <2>10. ASSUME walk # "prcs", NEW s \in stayed PROVE s \in C \cup {t} \/ Ahead(s, r)'
      <3>1. s \in C \/ r[g] < r[leader[s]] \/ (leader[s] = g /\ (r[t] < r[s] \/ s = t))
        BY <1>3, <2>1, <2>10 DEF Ahead, AtTask
      <3>2. QED
        BY <1>1, <2>1, <2>10, <3>1 DEF Ahead, AtTask
    <2>11. Counted(C \cup {t}, r)'
      <3>1. pc' # "done" /\ C \cup {t} \subseteq seen'
        BY <1>1, <2>1, <2>4
      <3>2. QED
        BY <1>1, <2>1, <2>2, <2>8, <2>9, <2>10, <3>1 DEF Counted
    <2>12. QED
      BY <2>11
  <1>10. CASE TaskLock \/ ReadName \/ ReadName2 \/ Relock
    <2>1. /\ pc \in AtTask \ {"thread"} /\ pc' \in AtTask \ {"thread"}
          /\ t' = t /\ g' = g /\ total' = total
      BY <1>10 DEF TaskLock, ReadName, ReadName2, Relock, Step, AtTask
    <2>2. \A c \in C : Behind(c, r)'
      BY <1>1, <1>3, <2>1 DEF Behind
    <2>3. walk # "prcs" => \A s \in stayed : s \in C \/ Ahead(s, r)'
      BY <1>1, <1>3, <2>1 DEF Ahead
    <2>4. Counted(C, r)'
      <3>1. pc' # "done"
        BY <2>1 DEF AtTask
      <3>2. QED
        BY <1>1, <1>3, <1>4, <2>1, <2>2, <2>3, <3>1 DEF Counted
    <2>5. QED
      BY <2>4
  <1>11. QED
    BY <1>5, <1>6, <1>7, <1>8, <1>9, <1>10 DEF Walker, Begin, Start

\* CountInv is an invariant.
LEMMA CountInvariant == Spec => []CountInv
  <1>1. Init => CountInv
    <2> SUFFICES ASSUME Init PROVE CountInv
      OBVIOUS
    <2>1. \E r, b : Ordered(Listed, Listed \ {Idle}, r, b)
      BY InitOrder
    <2>2. QED
      BY <2>1 DEF Init, CountInv
  <1>2. ASSUME CountInv, WalkInv, WalkInv', [Next]_vars PROVE CountInv'
    <2>1. /\ ListsInv /\ ListsInv' /\ stayed \subseteq Tasks /\ Known \subseteq Nodes
      BY <1>2 DEF WalkInv, KernelInv, WalkTypes, Known, Nodes
    <2>2. CASE pc = "out"
      <3>0. /\ g = Idle /\ t = Idle /\ total = 0
            /\ \E r, b : Ordered(Listed, Listed \ {Idle}, r, b)
        BY <1>2, <2>2 DEF CountInv
      <3>1. PICK r, b : Ordered(Listed, Listed \ {Idle}, r, b)
        BY <3>0
      <3>2. CASE Begin
        <4>1. History' /\ \E q, a, D : Ordered(Known, stayed, q, a)' /\ Counted(D, q)'
          BY <2>1, <3>0, <3>1, <3>2, CountBegins
        <4>2. pc' # "out"
          BY <3>2 DEF Begin, Start
        <4>3. QED
          BY <4>1, <4>2 DEF CountInv
      <3>3. ASSUME NEW s \in Tasks, Fork(s) \/ Clone(s) \/ Unlink(s) \/ Exec(s) \/ Free(s)
            PROVE  CountInv'
        <4>1. \E q, a : Ordered(Listed, Listed \ {Idle}, q, a)'
          BY <2>1, <3>1, <3>3, OrderBefore
        <4>2. pc' = pc /\ g' = g /\ t' = t /\ total' = total
          BY <3>3 DEF Fork, Clone, Unlink, Exec, Leave, Free, Others
        <4>3. QED
          BY <2>2, <3>0, <4>1, <4>2 DEF CountInv
      <3>4. ASSUME UNCHANGED <<life, listvars, pc, g, t, total>> PROVE CountInv'
        <4>1. Listed' = Listed
          BY <3>4 DEF Listed
        <4>2. Ordered(Listed, Listed \ {Idle}, r, b)'
          BY <3>1, <3>4, <4>1 DEF Ordered, OrderAt, NoSkip, listvars
        <4>3. QED
          BY <2>2, <3>0, <3>4, <4>2 DEF CountInv
      <3>5. ASSUME NEW s \in Renamers, Rename(s) PROVE CountInv'
        BY <3>4, <3>5 DEF Rename, Others
      <3>6. CASE UNCHANGED vars
        BY <3>4, <3>6 DEF vars, taskvars
      <3>7. Walker => Begin
        BY <2>2 DEF Walker, Oops, NextProcess, NextThread, End, TaskLock, ReadName, ReadName2,
                    Relock, Count, Step
      <3>8. QED
        BY <1>2, <3>2, <3>3, <3>5, <3>6, <3>7 DEF Next, OtherTasks
    <2>3. CASE pc # "out" /\ execed
      <3>1. execed' /\ pc' # "out"
        BY <1>2, <2>3 DEF Next, OtherTasks, Walker, Begin, Start, Oops, NextProcess, NextThread, End,
               TaskLock, ReadName, ReadName2, Relock, Count, Step, Fork, Clone, Unlink, Exec, Leave,
               Free, Rename, Others, hisvars, vars
      <3>2. QED
        BY <3>1 DEF CountInv
    <2>4. CASE pc # "out" /\ ~execed
      <3>0. History /\ \E r, b, C : Ordered(Known, stayed, r, b) /\ Counted(C, r)
        BY <1>2, <2>4 DEF CountInv
      <3>1. PICK r, b, C : Ordered(Known, stayed, r, b) /\ Counted(C, r)
        BY <3>0
      <3>2. ASSUME UNCHANGED <<life, listvars, hisvars>>, pc' # "out", NEW D, Counted(D, r)'
            PROVE  CountInv'
        <4>1. History'
          BY <3>0, <3>2 DEF History, Closed, Listed, Known, listvars, hisvars
        <4>2. Ordered(Known, stayed, r, b)'
          BY <3>1, <3>2 DEF Ordered, OrderAt, NoSkip, Known, listvars, hisvars
        <4>3. QED
          BY <3>2, <4>1, <4>2 DEF CountInv
      <3>3. CASE Walker
        <4>1. PICK D : Counted(D, r)'
          BY <1>2, <2>1, <2>4, <3>0, <3>1, <3>3, CountSteps
        <4>2. UNCHANGED <<life, listvars, hisvars>> /\ pc' # "out"
          BY <2>4, <3>3 DEF Walker, Begin, Start, Oops, NextProcess, NextThread, End, TaskLock,
             ReadName, ReadName2, Relock, Count, Step, taskvars
        <4>3. QED
          BY <3>2, <4>1, <4>2
      <3>4. ASSUME NEW s \in Tasks, Fork(s) \/ Clone(s) \/ Unlink(s) \/ Free(s) PROVE CountInv'
        <4>1. History' /\ \E q, a, D : Ordered(Known, stayed, q, a)' /\ Counted(D, q)'
          BY <2>1, <3>0, <3>1, <3>4, OrderDuring
        <4>2. pc' = pc
          BY <3>4 DEF Fork, Clone, Unlink, Leave, Free, Others
        <4>3. QED
          BY <2>4, <4>1, <4>2 DEF CountInv
      <3>5. ASSUME NEW s \in Tasks, Exec(s) PROVE CountInv'
        BY <2>4, <3>5 DEF Exec, Leave, Others, CountInv
      <3>6. ASSUME UNCHANGED <<life, listvars, hisvars, walk, pc, g, t, total>> PROVE CountInv'
        <4>1. Counted(C, r)'
          BY <3>1, <3>6 DEF Counted, Behind, Ahead, Known, listvars, hisvars
        <4>2. QED
          BY <2>4, <3>2, <3>6, <4>1
      <3>7. ASSUME NEW s \in Renamers, Rename(s) PROVE CountInv'
        BY <3>6, <3>7 DEF Rename, Others
      <3>8. CASE UNCHANGED vars
        BY <3>6, <3>8 DEF vars, taskvars
      <3>9. QED
        BY <1>2, <3>3, <3>4, <3>5, <3>7, <3>8 DEF Next, OtherTasks
    <2>5. QED
      BY <2>2, <2>3, <2>4
  <1>3. QED
    BY <1>1, <1>2, Invariant, PTL DEF Spec

\* Unless a thread calls exec meanwhile, what thrd_showall reports is, besides the
\* idle thread, no less than the number of the tasks that were there all the time and
\* no more than that of those that were there at any, and no walk counts a task twice.
THEOREM TotalsBounded == Spec => []TotalBounds
  <1>1. ASSUME CountInv, WalkTypes PROVE TotalBounds
    <2> SUFFICES ASSUME ~execed
                 PROVE  /\ total < MaxTotal
                        /\ pc = "done" /\ walk = "rcu" =>
                             total - 1 \in Cardinality(stayed)..Cardinality(seen)
      BY DEF TotalBounds
    <2>1. CASE pc = "out"
      BY <1>1, <2>1, RoomToCount DEF CountInv
    <2>2. CASE pc # "out"
      <3>1. PICK C, r : Counted(C, r)
        BY <1>1, <2>2 DEF CountInv
      <3>2. /\ C \subseteq seen /\ seen \subseteq Tasks /\ IsFiniteSet(Tasks)
            /\ total = Cardinality(C) + (IF walk = "rcu" THEN 1 ELSE 0)
            /\ pc = "done" /\ walk = "rcu" => stayed \subseteq C
        BY <1>1, <3>1, WalkAssumption DEF Counted, WalkTypes
      <3>3. /\ IsFiniteSet(seen) /\ IsFiniteSet(C)
            /\ Cardinality(C) <= Cardinality(seen) /\ Cardinality(seen) <= Cardinality(Tasks)
        BY <3>2, FS_Subset
      <3>4. Cardinality(C) \in Nat /\ Cardinality(seen) \in Nat /\ Cardinality(Tasks) \in Nat
        BY <3>2, <3>3, FS_CardinalityType
      <3>5. total < MaxTotal
        BY <3>2, <3>3, <3>4 DEF MaxTotal
      <3>6. ASSUME pc = "done", walk = "rcu"
            PROVE  total - 1 \in Cardinality(stayed)..Cardinality(seen)
        <4>1. IsFiniteSet(stayed) /\ Cardinality(stayed) <= Cardinality(C)
          BY <3>2, <3>3, <3>6, FS_Subset
        <4>2. Cardinality(stayed) \in Nat
          BY <4>1, FS_CardinalityType
        <4>3. total - 1 = Cardinality(C)
          BY <3>2, <3>4, <3>6
        <4>4. QED
          BY <3>3, <3>4, <4>1, <4>2, <4>3
      <3>7. QED
        BY <3>5, <3>6
    <2>3. QED
      BY <2>1, <2>2
  <1>2. WalkInv => WalkTypes
    BY DEF WalkInv
  <1>3. QED
    BY <1>1, <1>2, CountInvariant, Invariant, PTL
=============================================================================
