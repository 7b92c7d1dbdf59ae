------------------------- MODULE MutexDriverProofs -------------------------
(***************************************************************************)
(* Theorems about MutexDriver, for every number of processes, every buffer *)
(* size and every set of requests.                                         *)
(***************************************************************************)
EXTENDS MutexDriver, FiniteSetTheorems, TLAPS

-----------------------------------------------------------------------------
(* Strings *)

\* What strscpy() stores of a non-empty request fits the buffer with its NUL.
LEMMA StrscpyFits ==
  ASSUME NEW b \in BufType, b.count # 0
  PROVE  Strscpy(b) \in String
  BY SizeAssumption DEF BufType, Strscpy, String, Smaller

\* An empty string, an outcome and an empty request have their types.
LEMMA ConstantTypes ==
  /\ Whole(Init0) \in Memory
  /\ NoCopy \in Received
  /\ Whole([text |-> InitMsg, len |-> InitLen]) \in Memory
  /\ NoReq \in BufType
  /\ Nothing \in Outcomes
  /\ \A e \in {"none", "EINVAL", "EFAULT", "ENOMEM"} : Err(e) \in Outcomes
  /\ \A k \in {"opened", "closed", "read", "written"}, n \in Nat :
        Ret(k, n) \in Outcomes
  BY SizeAssumption, RequestAssumption
  DEF Whole, Init0, Memory, String, NoReq, BufType, Nothing, Err, Ret, Outcomes,
      NoCopy, Received, Piece, Copied

-----------------------------------------------------------------------------
(* Types *)

\* The module_init and module_exit steps keep every variable in its type.
LEMMA ModuleTypes ==
  ASSUME TypeOK, ModuleInit \/ ModuleExit
  PROVE  TypeOK'
  <1> USE SizeAssumption, LoadAssumption DEF modvars, cntvars, ctxvars, procvars
  <1>1. CASE MiscRegister
    BY <1>1 DEF MiscRegister, TypeOK, Stages
  <1>2. CASE AllocCtx
    BY <1>2, ConstantTypes DEF AllocCtx, TypeOK, Stages
  <1>3. CASE AllocCtxFails
    BY <1>3 DEF AllocCtxFails, TypeOK, Stages
  <1>4. CASE MutexInit
    BY <1>4 DEF MutexInit, TypeOK, Stages
  <1>5. CASE StoreInitMsg
    BY <1>5, ConstantTypes DEF StoreInitMsg, TypeOK, Stages
  <1>6. CASE DestroyLocks
    BY <1>6 DEF DestroyLocks, TypeOK, Stages
  <1>7. CASE MiscDeregister
    BY <1>7 DEF MiscDeregister, TypeOK, Stages, Places
  <1>8. QED
    BY <1>1, <1>2, <1>3, <1>4, <1>5, <1>6, <1>7 DEF ModuleInit, ModuleExit

\* A call begun by a process keeps every variable in its type.
LEMMA CallTypes ==
  ASSUME TypeOK, NEW p \in Procs, Calls(p)
  PROVE  TypeOK'
  <1> USE SizeAssumption, RequestAssumption
          DEF modvars, cntvars, ctxvars, procvars
  <1>1. CASE Open(p)
    BY <1>1 DEF Open, Go, TypeOK, Places
  <1>2. CASE Close(p)
    BY <1>2 DEF Close, Go, TypeOK, Places
  <1>3. CASE Read(p)
    <2>1. PICK count \in ReadCounts : req' = [req EXCEPT ![p].count = count]
      BY <1>3 DEF Read
    <2>2. req' \in [Procs -> BufType]
      BY <2>1 DEF TypeOK, BufType
    <2>3. QED
      BY <1>3, <2>2 DEF Read, Go, TypeOK, Places
  <1>4. CASE Write(p)
    BY <1>4 DEF Write, Go, TypeOK, Places
  <1>5. CASE WriteFails(p)
    <2>1. PICK e \in {"ENOMEM", "EFAULT"} : Finish(p, "idle", Err(e))
      BY <1>5 DEF WriteFails
    <2>2. out' \in [Procs -> Outcomes]
      BY <2>1, ConstantTypes DEF Finish, TypeOK
    <2>3. QED
      BY <1>5, <2>1, <2>2 DEF WriteFails, Finish, Go, TypeOK, Places
  <1>6. QED
    BY <1>1, <1>2, <1>3, <1>4, <1>5 DEF Calls

\* The steps of open() and close() keep every variable in its type.
LEMMA OpenCloseTypes ==
  ASSUME TypeOK, NEW p \in Procs, OpenSteps(p) \/ CloseSteps(p)
  PROVE  TypeOK'
  <1> USE DEF modvars, cntvars, ctxvars, procvars
  <1>1. CASE OpenCtx(p)
    BY <1>1 DEF OpenCtx, Go, TypeOK, Places
  <1>2. CASE OpenLock(p)
    BY <1>2 DEF OpenLock, Go, TypeOK, Places, Lock1Section
  <1>3. CASE OpenIncGa(p)
    BY <1>3 DEF OpenIncGa, Go, TypeOK, Places, Lock1Section
  <1>4. CASE OpenDecGb(p)
    BY <1>4 DEF OpenDecGb, Go, TypeOK, Places
  <1>5. CASE OpenReturn(p)
    BY <1>5, ConstantTypes DEF OpenReturn, Finish, Go, TypeOK, Places
  <1>6. CASE CloseLock(p)
    BY <1>6 DEF CloseLock, Go, TypeOK, Places, Lock1Section
  <1>7. CASE CloseDecGa(p)
    BY <1>7 DEF CloseDecGa, Go, TypeOK, Places, Lock1Section
  <1>8. CASE CloseIncGb(p)
    BY <1>8 DEF CloseIncGb, Go, TypeOK, Places
  <1>9. CASE CloseReturn(p)
    BY <1>9, ConstantTypes DEF CloseReturn, Finish, Go, TypeOK, Places
  <1>10. QED
    BY <1>1, <1>2, <1>3, <1>4, <1>5, <1>6, <1>7, <1>8, <1>9
    DEF OpenSteps, CloseSteps

\* The steps of read() keep every variable in its type.
LEMMA ReadTypes ==
  ASSUME TypeOK, NEW p \in Procs, ReadSteps(p)
  PROVE  TypeOK'
  <1> USE SizeAssumption DEF modvars, cntvars, ctxvars, procvars
  <1>1. CASE ReadLenRefused(p)
    BY <1>1, ConstantTypes DEF ReadLenRefused, TakeLen, Finish, Go, TypeOK, Places
  <1>2. CASE ReadLen(p)
    <2>1. PICK n \in StrLen(secret) :
            TakeLen(p, n) /\ slen' = [slen EXCEPT ![p] = n]
      BY <1>2 DEF ReadLen
    <2>2. n \in 0..MAXBYTES-1
      BY <2>1 DEF StrLen, TypeOK, Memory, String
    <2>3. QED
      BY <1>2, <2>1, <2>2 DEF ReadLen, TakeLen, Go, TypeOK, Places
  <1>3. CASE ReadLock(p)
    BY <1>3 DEF ReadLock, Go, TypeOK, Places, CtxSection
  <1>0. Copied(secret.head, slen[p]) \in Piece /\ Copied(secret.tail, slen[p]) \in Piece
    BY DEF TypeOK, Memory, String, Copied, Piece
  <1>4. CASE ReadCopyHead(p)
    <2>1. got' \in [Procs -> Received]
      BY <1>0, <1>4 DEF ReadCopyHead, TypeOK, Received
    <2>2. QED
      BY <1>4, <2>1 DEF ReadCopyHead, Go, TypeOK, Places, CtxSection
  <1>5. CASE ReadCopyTail(p)
    <2>1. got' \in [Procs -> Received]
      BY <1>0, <1>5 DEF ReadCopyTail, TypeOK, Received
    <2>2. QED
      BY <1>5, <2>1 DEF ReadCopyTail, Go, TypeOK, Places, CtxSection
  <1>6. CASE ReadFault(p)
    <2>1. PICK at \in {"r_front", "r_back"} : Finish(p, at, Err("EFAULT"))
      BY <1>6 DEF ReadFault
    <2>2. QED
      BY <1>6, <2>1, ConstantTypes DEF ReadFault, Finish, Go, TypeOK, Places
  <1>7. CASE ReadStat(p)
    <2>1. Ret("read", slen[p]) \in Outcomes
      BY ConstantTypes DEF TypeOK
    <2>2. QED
      BY <1>7, <2>1 DEF ReadStat, Finish, Go, TypeOK, Places
  <1>8. QED
    BY <1>1, <1>2, <1>3, <1>4, <1>5, <1>6, <1>7 DEF ReadSteps

\* The steps of write(), and returning to the process, keep the types.
LEMMA WriteTypes ==
  ASSUME TypeOK, NEW p \in Procs, WriteSteps(p) \/ Return(p)
  PROVE  TypeOK'
  <1> USE SizeAssumption DEF modvars, cntvars, ctxvars, procvars
  <1>0. req[p] \in BufType /\ (req[p].count # 0 => Strscpy(req[p]) \in String)
    BY StrscpyFits DEF TypeOK
  <1>1. CASE WriteLock(p)
    BY <1>1 DEF WriteLock, Go, TypeOK, Places, CtxSection
  <1>2. CASE WriteHead(p)
    BY <1>0, <1>2 DEF WriteHead, Go, TypeOK, Places, CtxSection, Memory
  <1>3. CASE WriteTail(p)
    <2>1. secret' \in Memory
      BY <1>0, <1>3 DEF WriteTail, TypeOK, Memory
    <2>2. taken' \in 0..IntMod-1
      BY <1>0, <1>3 DEF WriteTail, TypeOK, BufType
    <2>3. QED
      BY <1>3, <2>1, <2>2 DEF WriteTail, Go, TypeOK, Places, CtxSection
  <1>4. CASE WriteStat(p)
    <2>1. Ret("written", req[p].count) \in Outcomes
      BY <1>0, ConstantTypes DEF BufType
    <2>2. rx' \in 0..IntMod-1
      BY <1>0, <1>4 DEF WriteStat, TypeOK, BufType
    <2>3. QED
      BY <1>4, <2>1, <2>2 DEF WriteStat, Finish, Go, TypeOK, Places
  <1>5. CASE Return(p)
    BY <1>5, ConstantTypes DEF Return, Go, TypeOK, Places
  <1>6. QED
    BY <1>1, <1>2, <1>3, <1>4, <1>5 DEF WriteSteps

\* Every variable keeps its type: in particular the secret always fits
\* ctx->oursecret with its terminating NUL, whatever sizes are written.
THEOREM TypeCorrect == Spec => []TypeOK
  <1>1. Init => TypeOK
    BY ConstantTypes, SizeAssumption, LoadAssumption DEF Init, TypeOK, Stages, Places
  <1>2. TypeOK /\ [Next]_vars => TypeOK'
    <2> SUFFICES ASSUME TypeOK, [Next]_vars PROVE TypeOK'
      OBVIOUS
    <2>1. CASE ModuleInit \/ ModuleExit
      BY <2>1, ModuleTypes
    <2>2. ASSUME NEW p \in Procs, Calls(p) PROVE TypeOK'
      BY <2>2, CallTypes
    <2>3. ASSUME NEW p \in Procs, Handler(p) PROVE TypeOK'
      BY <2>3, OpenCloseTypes, ReadTypes, WriteTypes DEF Handler
    <2>4. CASE UNCHANGED vars
      BY <2>4 DEF vars, modvars, cntvars, ctxvars, procvars, TypeOK
    <2>5. QED
      BY <2>1, <2>2, <2>3, <2>4 DEF Next
  <1>3. QED
    BY <1>1, <1>2, PTL DEF Spec

-----------------------------------------------------------------------------
(* The counters *)

OpenPlaces  == {"o_ctx", "o_lock", "o_ga", "o_gb", "o_ret"}
ClosePlaces == {"c_lock", "c_ga", "c_gb", "c_ret"}

\* A process is counted in ga from its ga++ in open() to its ga-- in close().
InGa == {p \in Procs : \/ file[p] /\ pc[p] \notin {"c_gb", "c_ret"}
                       \/ pc[p] \in {"o_gb", "o_ret"}}

\* lock1 is held by the process inside its critical section, and by no other.
Lock1Held == \A p \in Procs : pc[p] \in Lock1Section <=> lock1 = p

\* Between ga and gb the sum is one off, by the holder's half-done change.
SumHeld ==
  /\ lock1 = NoOwner => ga + gb = 1
  /\ \A p \in Procs : /\ pc[p] \in {"o_ga", "c_ga"} => ga + gb = 1
                      /\ pc[p] = "o_gb" => ga + gb = 2
                      /\ pc[p] = "c_gb" => ga + gb = 0

\* open() runs on a closed descriptor, close() on an open one, and nothing runs
\* in a module that is out.
FilesHeld ==
  \A p \in Procs : /\ pc[p] \in OpenPlaces => ~file[p]
                   /\ pc[p] \in ClosePlaces => file[p]
                   /\ mod = "out" => /\ pc[p] \in {"idle", "done", "oops"}
                                     /\ file[p] => pc[p] = "oops"

CounterInv ==
  /\ TypeOK
  /\ Lock1Held
  /\ FilesHeld
  /\ mod # "out" => SumHeld /\ ga = Cardinality(InGa)

\* A step that touches no counter, lock or descriptor, and stays on its side of
\* both critical sections, keeps the invariant.
LEMMA CounterNeutral ==
  ASSUME CounterInv, TypeOK', NEW p \in Procs, NEW from, NEW to,
         Go(p, from, to), UNCHANGED <<mod, lock1, ga, gb, file>>,
         from \notin Lock1Section, to \notin Lock1Section,
         from = "o_ret" <=> to = "o_ret",
         from = "c_ret" <=> to = "c_ret",
         to \in OpenPlaces => ~file[p],
         to \in ClosePlaces => file[p],
         mod = "out" => to \in {"idle", "done"} /\ ~file[p]
  PROVE  CounterInv'
  <1> USE DEF CounterInv, Lock1Section
  <1>1. pc \in [Procs -> Places] /\ pc[p] = from /\ pc' = [pc EXCEPT ![p] = to]
    BY DEF Go, TypeOK
  <1>2. InGa' = InGa
    BY <1>1 DEF InGa
  <1>3. Lock1Held'
    BY <1>1 DEF Lock1Held
  <1>4. FilesHeld'
    BY <1>1 DEF FilesHeld
  <1>5. SumHeld => SumHeld'
    BY <1>1 DEF SumHeld
  <1>6. QED
    BY <1>2, <1>3, <1>4, <1>5

\* The counters across insmod and rmmod: a fresh module has nobody counted.
LEMMA CounterModule ==
  ASSUME CounterInv, TypeOK', ModuleInit \/ ModuleExit
  PROVE  CounterInv'
  <1> USE DEF CounterInv, modvars, cntvars, ctxvars, procvars
  <1>1. CASE MiscRegister
    <2>1. \A p \in Procs : pc[p] \in {"idle", "done", "oops"} /\ ~file[p]
      BY <1>1 DEF MiscRegister, FilesHeld
    <2>2. InGa' = {}
      BY <1>1, <2>1 DEF MiscRegister, InGa
    <2>3. Lock1Held' /\ FilesHeld' /\ SumHeld'
      BY <1>1, <2>1 DEF MiscRegister, Lock1Held, FilesHeld, SumHeld, Lock1Section,
                         OpenPlaces, ClosePlaces
    <2>4. QED
      BY <1>1, <2>2, <2>3, FS_EmptySet DEF MiscRegister
  <1>2. CASE MiscDeregister
    <2>1. \A p \in Procs : /\ pc'[p] \in {"idle", "done", "oops"}
                           /\ file'[p] => pc'[p] = "oops"
      BY <1>2 DEF MiscDeregister, TypeOK
    <2>2. Lock1Held' /\ FilesHeld' /\ mod' = "out"
      BY <1>2, <2>1, OwnerAssumption
      DEF MiscDeregister, Lock1Held, FilesHeld, Lock1Section, OpenPlaces, ClosePlaces
    <2>3. QED
      BY <2>2
  <1>3. CASE AllocCtx \/ AllocCtxFails \/ MutexInit \/ StoreInitMsg \/ DestroyLocks
    <2>1. UNCHANGED <<lock1, ga, gb, pc, file>> /\ mod # "out" /\ mod' # "out"
      BY <1>3 DEF AllocCtx, AllocCtxFails, MutexInit, StoreInitMsg, DestroyLocks
    <2>2. QED
      BY <2>1 DEF Lock1Held, FilesHeld, SumHeld, InGa
  <1>4. QED
    BY <1>1, <1>2, <1>3 DEF ModuleInit, ModuleExit

\* open(): ga and the set of processes counted in it grow together.
LEMMA CounterOpen ==
  ASSUME CounterInv, TypeOK', NEW p \in Procs, OpenSteps(p)
  PROVE  CounterInv'
  <1> USE OwnerAssumption DEF CounterInv, modvars, cntvars, ctxvars, procvars
  <1>0. pc \in [Procs -> Places] /\ ga \in Int /\ gb \in Int
    BY DEF TypeOK
  <1>1. CASE OpenCtx(p)
    <2>1. Go(p, "o_ctx", "oops") \/ Go(p, "o_ctx", "o_lock")
      BY <1>1 DEF OpenCtx
    <2>2. mod # "out" /\ ~file[p]
      BY <2>1 DEF Go, FilesHeld, OpenPlaces
    <2>3. QED
      BY <1>1, <2>1, <2>2, CounterNeutral
      DEF OpenCtx, Lock1Section, OpenPlaces, ClosePlaces
  <1>2. CASE OpenLock(p)
    <2>1. pc[p] = "o_lock" /\ pc' = [pc EXCEPT ![p] = "o_ga"] /\ lock1 = NoOwner
      BY <1>2 DEF OpenLock, Go
    <2>2. InGa' = InGa
      BY <1>0, <1>2, <2>1 DEF OpenLock, InGa
    <2>3. Lock1Held'
      BY <1>0, <1>2, <2>1 DEF OpenLock, Lock1Held, Lock1Section
    <2>4. FilesHeld' /\ mod # "out"
      BY <1>0, <1>2, <2>1 DEF OpenLock, FilesHeld, OpenPlaces, ClosePlaces
    <2>5. SumHeld'
      BY <1>0, <1>2, <2>1, <2>3, <2>4 DEF OpenLock, SumHeld, Lock1Held, Lock1Section
    <2>6. QED
      BY <1>2, <2>2, <2>3, <2>4, <2>5 DEF OpenLock
  <1>3. CASE OpenIncGa(p)
    <2>1. pc[p] = "o_ga" /\ pc' = [pc EXCEPT ![p] = "o_gb"] /\ lock1 = p
      BY <1>3 DEF OpenIncGa, Go, Lock1Held, Lock1Section
    <2>2. FilesHeld' /\ mod # "out" /\ ~file[p]
      BY <1>0, <1>3, <2>1 DEF OpenIncGa, FilesHeld, OpenPlaces, ClosePlaces
    <2>3. p \notin InGa /\ InGa' = InGa \cup {p}
      BY <1>0, <1>3, <2>1, <2>2 DEF OpenIncGa, InGa
    <2>4. IsFiniteSet(InGa)
      BY FiniteProcs, FS_Subset DEF InGa
    <2>5. ga' = Cardinality(InGa')
      BY <1>3, <2>2, <2>3, <2>4, FS_AddElement DEF OpenIncGa
    <2>6. Lock1Held'
      BY <1>0, <1>3, <2>1 DEF OpenIncGa, Lock1Held, Lock1Section
    <2>7. SumHeld'
      BY <1>0, <1>3, <2>1, <2>2 DEF OpenIncGa, SumHeld, Lock1Held, Lock1Section
    <2>8. QED
      BY <2>2, <2>5, <2>6, <2>7
  <1>4. CASE OpenDecGb(p)
    <2>1. pc[p] = "o_gb" /\ pc' = [pc EXCEPT ![p] = "o_ret"] /\ lock1 = p
      BY <1>4 DEF OpenDecGb, Go, Lock1Held, Lock1Section
    <2>2. FilesHeld' /\ mod # "out"
      BY <1>0, <1>4, <2>1 DEF OpenDecGb, FilesHeld, OpenPlaces, ClosePlaces
    <2>3. InGa' = InGa
      BY <1>0, <1>4, <2>1 DEF OpenDecGb, InGa
    <2>4. Lock1Held'
      BY <1>0, <1>4, <2>1 DEF OpenDecGb, Lock1Held, Lock1Section
    <2>5. SumHeld'
      BY <1>0, <1>4, <2>1, <2>2 DEF OpenDecGb, SumHeld, Lock1Held, Lock1Section
    <2>6. QED
      BY <1>4, <2>2, <2>3, <2>4, <2>5 DEF OpenDecGb
  <1>5. CASE OpenReturn(p)
    <2>1. pc[p] = "o_ret" /\ pc' = [pc EXCEPT ![p] = "done"]
      BY <1>5 DEF OpenReturn, Finish, Go
    <2>2. file' = [file EXCEPT ![p] = TRUE] /\ file \in [Procs -> BOOLEAN]
      BY <1>5 DEF OpenReturn, TypeOK
    <2>3. InGa' = InGa
      BY <1>0, <2>1, <2>2 DEF InGa
    <2>4. FilesHeld'
      BY <1>0, <1>5, <2>1, <2>2 DEF OpenReturn, FilesHeld, OpenPlaces, ClosePlaces
    <2>5. Lock1Held' /\ (SumHeld => SumHeld')
      BY <1>0, <1>5, <2>1 DEF OpenReturn, Lock1Held, Lock1Section, SumHeld
    <2>6. QED
      BY <1>5, <2>3, <2>4, <2>5 DEF OpenReturn
  <1>6. QED
    BY <1>1, <1>2, <1>3, <1>4, <1>5 DEF OpenSteps

\* close(): ga and the set of processes counted in it shrink together.
LEMMA CounterClose ==
  ASSUME CounterInv, TypeOK', NEW p \in Procs, CloseSteps(p)
  PROVE  CounterInv'
  <1> USE OwnerAssumption DEF CounterInv, modvars, cntvars, ctxvars, procvars
  <1>0. pc \in [Procs -> Places] /\ ga \in Int /\ gb \in Int
    BY DEF TypeOK
  <1>1. CASE CloseLock(p)
    <2>1. pc[p] = "c_lock" /\ pc' = [pc EXCEPT ![p] = "c_ga"] /\ lock1 = NoOwner
      BY <1>1 DEF CloseLock, Go
    <2>2. InGa' = InGa
      BY <1>0, <1>1, <2>1 DEF CloseLock, InGa
    <2>3. Lock1Held'
      BY <1>0, <1>1, <2>1 DEF CloseLock, Lock1Held, Lock1Section
    <2>4. FilesHeld' /\ mod # "out"
      BY <1>0, <1>1, <2>1 DEF CloseLock, FilesHeld, OpenPlaces, ClosePlaces
    <2>5. SumHeld'
      BY <1>0, <1>1, <2>1, <2>3, <2>4 DEF CloseLock, SumHeld, Lock1Held, Lock1Section
    <2>6. QED
      BY <1>1, <2>2, <2>3, <2>4, <2>5 DEF CloseLock
  <1>2. CASE CloseDecGa(p)
    <2>1. pc[p] = "c_ga" /\ pc' = [pc EXCEPT ![p] = "c_gb"] /\ lock1 = p
      BY <1>2 DEF CloseDecGa, Go, Lock1Held, Lock1Section
    <2>2. FilesHeld' /\ mod # "out" /\ file[p]
      BY <1>0, <1>2, <2>1 DEF CloseDecGa, FilesHeld, OpenPlaces, ClosePlaces
    <2>3. p \in InGa /\ InGa' = InGa \ {p}
      BY <1>0, <1>2, <2>1, <2>2 DEF CloseDecGa, InGa
    <2>4. IsFiniteSet(InGa)
      BY FiniteProcs, FS_Subset DEF InGa
    <2>5. ga' = Cardinality(InGa')
      BY <1>2, <2>2, <2>3, <2>4, FS_RemoveElement DEF CloseDecGa
    <2>6. Lock1Held'
      BY <1>0, <1>2, <2>1 DEF CloseDecGa, Lock1Held, Lock1Section
    <2>7. SumHeld'
      BY <1>0, <1>2, <2>1, <2>2 DEF CloseDecGa, SumHeld, Lock1Held, Lock1Section
    <2>8. QED
      BY <2>2, <2>5, <2>6, <2>7
  <1>3. CASE CloseIncGb(p)
    <2>1. pc[p] = "c_gb" /\ pc' = [pc EXCEPT ![p] = "c_ret"] /\ lock1 = p
      BY <1>3 DEF CloseIncGb, Go, Lock1Held, Lock1Section
    <2>2. FilesHeld' /\ mod # "out"
      BY <1>0, <1>3, <2>1 DEF CloseIncGb, FilesHeld, OpenPlaces, ClosePlaces
    <2>3. InGa' = InGa
      BY <1>0, <1>3, <2>1 DEF CloseIncGb, InGa
    <2>4. Lock1Held'
      BY <1>0, <1>3, <2>1 DEF CloseIncGb, Lock1Held, Lock1Section
    <2>5. SumHeld'
      BY <1>0, <1>3, <2>1, <2>2 DEF CloseIncGb, SumHeld, Lock1Held, Lock1Section
    <2>6. QED
      BY <1>3, <2>2, <2>3, <2>4, <2>5 DEF CloseIncGb
  <1>4. CASE CloseReturn(p)
    <2>1. pc[p] = "c_ret" /\ pc' = [pc EXCEPT ![p] = "done"]
      BY <1>4 DEF CloseReturn, Finish, Go
    <2>2. file' = [file EXCEPT ![p] = FALSE] /\ file \in [Procs -> BOOLEAN]
      BY <1>4 DEF CloseReturn, TypeOK
    <2>3. InGa' = InGa
      BY <1>0, <2>1, <2>2 DEF InGa
    <2>4. FilesHeld'
      BY <1>0, <1>4, <2>1, <2>2 DEF CloseReturn, FilesHeld, OpenPlaces, ClosePlaces
    <2>5. Lock1Held' /\ (SumHeld => SumHeld')
      BY <1>0, <1>4, <2>1 DEF CloseReturn, Lock1Held, Lock1Section, SumHeld
    <2>6. QED
      BY <1>4, <2>3, <2>4, <2>5 DEF CloseReturn
  <1>5. QED
    BY <1>1, <1>2, <1>3, <1>4 DEF CloseSteps

\* Beginning a call, read(), write() and returning leave the counters alone.
LEMMA CounterOthers ==
  ASSUME CounterInv, TypeOK', NEW p \in Procs,
         Calls(p) \/ ReadSteps(p) \/ WriteSteps(p) \/ Return(p)
  PROVE  CounterInv'
  <1> DEFINE Sections == {"idle", "done", "r_len", "r_lock", "w_lock"} \cup CtxSection
  <1>1. UNCHANGED <<mod, lock1, ga, gb, file>>
    BY DEF Calls, ReadSteps, WriteSteps, Open, Close, Read, Write, WriteFails,
           ReadLenRefused, ReadLen, TakeLen, ReadLock, ReadCopyHead, ReadCopyTail,
           ReadFault, ReadStat, WriteLock, WriteHead, WriteTail, WriteStat, Return,
           modvars, cntvars
  <1>2. CASE Calls(p)
    <2>1. \E to \in {"o_ctx", "c_lock", "r_len", "w_lock", "done"} :
            /\ Go(p, "idle", to)
            /\ IF to = "o_ctx" THEN ~file[p] /\ mod # "out" ELSE file[p]
      BY <1>2 DEF Calls, Open, Close, Read, Write, WriteFails, Finish, Visible
    <2>2. PICK to \in {"o_ctx", "c_lock", "r_len", "w_lock", "done"} :
            /\ Go(p, "idle", to)
            /\ IF to = "o_ctx" THEN ~file[p] /\ mod # "out" ELSE file[p]
      BY <2>1
    <2>3. mod # "out"
      BY <2>2 DEF CounterInv, FilesHeld, Go
    <2>4. QED
      BY <1>1, <2>2, <2>3, CounterNeutral DEF Lock1Section, OpenPlaces, ClosePlaces
  <1>3. CASE ReadSteps(p) \/ WriteSteps(p)
    <2>1. \E from \in Sections \ {"idle", "done"}, to \in Sections \ {"idle"} :
             Go(p, from, to)
      BY <1>3 DEF ReadSteps, WriteSteps, ReadLenRefused, ReadLen, ReadLock,
                  ReadCopyHead, ReadCopyTail, ReadFault, ReadStat, WriteLock,
                  WriteHead, WriteTail, WriteStat, Finish, CtxSection
    <2>2. PICK from \in Sections \ {"idle", "done"}, to \in Sections \ {"idle"} :
             Go(p, from, to)
      BY <2>1
    <2>3. mod # "out"
      BY <2>2 DEF CounterInv, FilesHeld, Go, CtxSection
    <2>4. QED
      BY <1>1, <2>2, <2>3, CounterNeutral
      DEF Lock1Section, OpenPlaces, ClosePlaces, CtxSection
  <1>4. CASE Return(p)
    <2>1. Go(p, "done", "idle")
      BY <1>4 DEF Return
    <2>2. mod = "out" => ~file[p]
      BY <2>1 DEF CounterInv, FilesHeld, Go
    <2>3. QED
      BY <1>1, <2>1, <2>2, CounterNeutral DEF Lock1Section, OpenPlaces, ClosePlaces
  <1>5. QED
    BY <1>2, <1>3, <1>4

\* Whatever the processes do, and even if they use the device while the module
\* is being inserted or removed, whenever lock1 is free ga is the number of
\* processes open() has counted in and close() has not counted out, and
\* ga + gb = 1.
THEOREM CountersCorrect == Spec => []CountersSettled
  <1>1. Init => CounterInv
    <2> SUFFICES ASSUME Init PROVE CounterInv
      OBVIOUS
    <2>1. TypeOK
      BY ConstantTypes, SizeAssumption, LoadAssumption DEF Init, TypeOK, Stages, Places
    <2>2. QED
      BY <2>1, OwnerAssumption
      DEF Init, CounterInv, Lock1Held, FilesHeld, Lock1Section, OpenPlaces, ClosePlaces
  <1>2. CounterInv /\ TypeOK' /\ [Next]_vars => CounterInv'
    <2> SUFFICES ASSUME CounterInv, TypeOK', [Next]_vars PROVE CounterInv'
      OBVIOUS
    <2>1. CASE ModuleInit \/ ModuleExit
      BY <2>1, CounterModule
    <2>2. ASSUME NEW p \in Procs, Calls(p) PROVE CounterInv'
      BY <2>2, CounterOthers
    <2>3. ASSUME NEW p \in Procs, Handler(p) PROVE CounterInv'
      BY <2>3, CounterOpen, CounterClose, CounterOthers DEF Handler
    <2>4. CASE UNCHANGED vars
      BY <2>4 DEF vars, modvars, cntvars, CounterInv, Lock1Held, FilesHeld, SumHeld, InGa
    <2>5. QED
      BY <2>1, <2>2, <2>3, <2>4 DEF Next
  <1>3. CounterInv => CountersSettled
    <2> SUFFICES ASSUME CounterInv, lock1 = NoOwner, mod \in {"live", "exiting"}
                 PROVE  ga = Cardinality(Counted) /\ ga + gb = 1
      BY DEF CountersSettled
    <2>1. \A p \in Procs : pc[p] \notin Lock1Section
      BY OwnerAssumption DEF CounterInv, Lock1Held
    <2>2. InGa = Counted
      BY <2>1 DEF InGa, Counted, Lock1Section
    <2>3. QED
      BY <2>2 DEF CounterInv, SumHeld
  <1>4. QED
    BY <1>1, <1>2, <1>3, TypeCorrect, PTL DEF Spec

-----------------------------------------------------------------------------
(* The context, when nobody uses the device before module_init is done *)

\* The module is in and has a context that processes may use.
InUse == mod \in {"live", "exiting"}

\* Nobody is in the driver unless the module is in use, or was left half-inserted.
QuietLife ==
  /\ ~InUse => \A p \in Procs : \/ pc[p] \in {"idle", "done", "oops"}
                                \/ mod = "stale" /\ pc[p] = "o_ctx"
  /\ mod \in Stages \ {"out", "live", "exiting"} => \A p \in Procs : ~file[p]
  /\ mod = "out" => \A p \in Procs : file[p] => pc[p] = "oops"

\* What QuietInit says of insmod keeps every process out of the driver until it is inserted.
LEMMA QuietStep ==
  ASSUME QuietInit, TypeOK, QuietLife, [Next]_vars
  PROVE  QuietLife'
  <1> USE DEF QuietLife, InUse, Stages, modvars, cntvars, ctxvars, procvars
  <1>0. pc \in [Procs -> Places] /\ file \in [Procs -> BOOLEAN] /\ mod \in Stages
    BY DEF TypeOK
  <1>1. CASE ModuleInit \/ ModuleExit
    BY <1>0, <1>1 DEF ModuleInit, ModuleExit, MiscRegister, AllocCtx, AllocCtxFails,
         MutexInit, StoreInitMsg, DestroyLocks, MiscDeregister
  <1>2. ASSUME NEW p \in Procs, Calls(p) PROVE QuietLife'
    <2>1. CASE Open(p)
      BY <1>0, <2>1 DEF Open, Visible, Go
    <2>2. CASE Close(p) \/ Read(p) \/ Write(p) \/ WriteFails(p)
      <3>1. InUse /\ mod' = mod
        BY <1>0, <2>2 DEF Close, Read, Write, WriteFails, Finish, Go
      <3>2. QED
        BY <3>1
    <2>3. QED
      BY <1>2, <2>1, <2>2 DEF Calls
  <1>3. ASSUME NEW p \in Procs, Handler(p) PROVE QuietLife'
    <2>1. CASE OpenCtx(p)
      BY <1>0, <2>1 DEF OpenCtx, Go
    <2>2. CASE Return(p)
      BY <1>0, <2>2 DEF Return, Go
    <2>3. CASE ~OpenCtx(p) /\ ~Return(p)
      <3>1. pc[p] \notin {"idle", "done", "o_ctx", "oops"} /\ mod' = mod
        BY <1>3, <2>3 DEF Handler, OpenSteps, CloseSteps, ReadSteps, WriteSteps,
             OpenLock, OpenIncGa, OpenDecGb, OpenReturn, CloseLock,
             CloseDecGa, CloseIncGb, CloseReturn, ReadLenRefused,
             ReadLen, TakeLen, ReadLock, ReadCopyHead, ReadCopyTail, ReadFault,
             ReadStat, WriteLock, WriteHead, WriteTail, WriteStat, Finish, Go
      <3>2. InUse
        BY <3>1
      <3>3. QED
        BY <3>1, <3>2
    <2>4. QED
      BY <2>1, <2>2, <2>3
  <1>4. CASE UNCHANGED vars
    BY <1>4 DEF vars
  <1>5. QED
    BY <1>1, <1>2, <1>3, <1>4 DEF Next

\* ctx->lock of a context in use is held by the process inside a critical section,
\* and no other.  What rmmod leaves of a context may stay locked for ever.
CtxHeld == \A p \in Procs : /\ pc[p] \in CtxSection => InUse /\ ctxlock = p
                            /\ InUse /\ ctxlock = p => pc[p] \in CtxSection
                            /\ mod \in {"alloced", "lockinit"} => ctxlock # p

\* What is true of the context when nobody is changing it.
Settled == secret.head = secret.tail /\ tx = handed /\ rx = taken

\* What the holder of ctx->lock knows at each of its steps.
HolderKnows(p) ==
  /\ pc[p] \in {"r_front", "r_back", "w_front"} => Settled
  /\ pc[p] = "r_back" => got[p].head = Copied(secret.head, slen[p])
  /\ pc[p] = "r_stat" => /\ secret.head = secret.tail
                         /\ got[p] = Whole(Copied(secret.tail, slen[p]))
                         /\ rx = taken /\ reg[p] = tx
                         /\ handed = (tx + slen[p]) % IntMod
  /\ pc[p] = "w_back" => /\ tx = handed /\ rx = taken
                         /\ secret.head = IF req[p].count = 0 THEN secret.tail
                                          ELSE Strscpy(req[p])
  /\ pc[p] = "w_stat" => /\ secret.head = secret.tail
                         /\ tx = handed /\ reg[p] = rx
                         /\ taken = (rx + req[p].count) % IntMod

\* A read's outcome is there only until the process has looked at it.
OutHeld == \A p \in Procs : out[p].kind = "read" => pc[p] \in {"done", "oops"}

CtxInv ==
  /\ TypeOK
  /\ QuietLife
  /\ CtxHeld
  /\ ctxlock = NoOwner => Settled
  /\ \A p \in Procs : HolderKnows(p)
  /\ OutHeld

\* A step outside the critical sections that changes nothing of the context,
\* and nothing of another process, keeps the invariant.
LEMMA CtxNeutral ==
  ASSUME CtxInv, TypeOK', QuietLife', NEW p \in Procs, NEW from, NEW to,
         Go(p, from, to), from \notin CtxSection, to \notin CtxSection,
         UNCHANGED <<mod, ctxlock, secret, tx, rx, handed, taken>>,
         \A q \in Procs \ {p} : /\ req'[q] = req[q] /\ got'[q] = got[q]
                                /\ reg'[q] = reg[q] /\ slen'[q] = slen[q]
                                /\ out'[q] = out[q],
         out'[p].kind = "read" => to \in {"done", "oops"}
  PROVE  CtxInv'
  <1> USE DEF CtxInv
  <1>0. pc \in [Procs -> Places] /\ pc[p] = from /\ pc' = [pc EXCEPT ![p] = to]
    BY DEF TypeOK, Go
  <1>1. CtxHeld'
    BY <1>0 DEF CtxHeld, InUse
  <1>2. ctxlock' = NoOwner => Settled'
    BY DEF Settled
  <1>3. ASSUME NEW q \in Procs PROVE HolderKnows(q)'
    <2>1. CASE q = p
      BY <1>0, <2>1 DEF HolderKnows, CtxSection
    <2>2. CASE q # p
      BY <1>0, <2>2 DEF HolderKnows, Settled
    <2>3. QED
      BY <2>1, <2>2
  <1>4. OutHeld'
    BY <1>0 DEF OutHeld
  <1>5. QED
    BY <1>1, <1>2, <1>3, <1>4

\* A step of the process that takes, holds or releases ctx->lock keeps the
\* invariant if it leaves that process, or the context, as the invariant says.
LEMMA CtxHolder ==
  ASSUME CtxInv, TypeOK', QuietLife', NEW p \in Procs, NEW from, NEW to,
         Go(p, from, to),
         \A q \in Procs \ {p} : pc[q] \notin CtxSection,
         mod' = mod,
         ctxlock' = IF to \in CtxSection THEN p ELSE NoOwner,
         to \notin CtxSection => Settled',
         HolderKnows(p)', OutHeld'
  PROVE  CtxInv'
  <1> USE OwnerAssumption DEF CtxInv
  <1>0. pc \in [Procs -> Places] /\ pc[p] = from /\ pc' = [pc EXCEPT ![p] = to]
    BY DEF TypeOK, Go
  <1>1. \A q \in Procs \ {p} : pc'[q] \notin CtxSection
    BY <1>0
  <1>0a. to \in CtxSection => mod \in {"live", "exiting"}
    BY <1>0 DEF QuietLife, InUse, CtxSection
  <1>2. CtxHeld'
    BY <1>0, <1>1, <1>0a DEF CtxHeld, InUse
  <1>3. ASSUME NEW q \in Procs \ {p} PROVE HolderKnows(q)'
    BY <1>1, <1>3 DEF HolderKnows, CtxSection
  <1>4. QED
    BY <1>2, <1>3

\* The critical section of read().
LEMMA CtxRead ==
  ASSUME CtxInv, TypeOK', QuietLife', NEW p \in Procs,
         ReadLock(p) \/ ReadCopyHead(p) \/ ReadCopyTail(p) \/ ReadFault(p) \/ ReadStat(p)
  PROVE  CtxInv'
  <1> USE OwnerAssumption DEF CtxInv, cntvars, procvars, ctxvars, modvars
  <1>0. /\ pc \in [Procs -> Places] /\ got \in [Procs -> Received]
        /\ reg \in [Procs -> Int] /\ out \in [Procs -> Outcomes]
        /\ secret \in Memory
    BY DEF TypeOK
  <1>1. \A q \in Procs \ {p} : pc[q] \notin CtxSection
    BY DEF ReadLock, ReadCopyHead, ReadCopyTail, ReadFault, ReadStat, CtxHeld,
           Finish, Go, CtxSection
  <1>2. CASE ReadLock(p)
    <2>1. HolderKnows(p)'
      BY <1>0, <1>2 DEF ReadLock, Go, HolderKnows, Settled
    <2>2. OutHeld'
      BY <1>0, <1>2 DEF ReadLock, Go, OutHeld
    <2>3. QED
      BY <1>1, <1>2, <2>1, <2>2, CtxHolder DEF ReadLock, CtxSection
  <1>3. CASE ReadCopyHead(p)
    <2>1. HolderKnows(p)'
      BY <1>0, <1>3 DEF ReadCopyHead, Go, HolderKnows, Settled, Memory
    <2>2. OutHeld'
      BY <1>0, <1>3 DEF ReadCopyHead, Go, OutHeld
    <2>3. ctxlock' = p
      BY <1>3 DEF ReadCopyHead, Go, CtxHeld, CtxSection
    <2>4. QED
      BY <1>1, <1>3, <2>1, <2>2, <2>3, CtxHolder DEF ReadCopyHead, CtxSection
  <1>4. CASE ReadCopyTail(p)
    <2>1. got'[p] = Whole(Copied(secret.tail, slen[p]))
      <3>1. got[p] \in Received /\ got[p].head = Copied(secret.head, slen[p])
        BY <1>0, <1>4 DEF ReadCopyTail, Go, HolderKnows
      <3>2. secret.head = secret.tail
        BY <1>4 DEF ReadCopyTail, Go, HolderKnows, Settled
      <3>3. got'[p] = [got[p] EXCEPT !.tail = Copied(secret.tail, slen[p])]
        BY <1>0, <1>4 DEF ReadCopyTail
      <3>4. QED
        BY <3>1, <3>2, <3>3 DEF Received, Whole
    <2>2. HolderKnows(p)'
      BY <1>0, <1>4, <2>1 DEF ReadCopyTail, Go, HolderKnows, Settled
    <2>3. OutHeld'
      BY <1>0, <1>4 DEF ReadCopyTail, Go, OutHeld
    <2>4. ctxlock' = p
      BY <1>4 DEF ReadCopyTail, Go, CtxHeld, CtxSection
    <2>5. QED
      BY <1>1, <1>4, <2>2, <2>3, <2>4, CtxHolder DEF ReadCopyTail, CtxSection
  <1>5. CASE ReadFault(p)
    <2>1. PICK at \in {"r_front", "r_back"} : Finish(p, at, Err("EFAULT"))
      BY <1>5 DEF ReadFault
    <2>2. Settled'
      BY <1>5, <2>1 DEF ReadFault, Finish, Go, HolderKnows, Settled
    <2>3. HolderKnows(p)'
      BY <1>0, <2>1 DEF Finish, Go, HolderKnows
    <2>4. OutHeld'
      BY <1>0, <2>1 DEF Finish, Go, OutHeld, Err, Ret
    <2>5. QED
      BY <1>1, <1>5, <2>1, <2>2, <2>3, <2>4, CtxHolder
      DEF ReadFault, Finish, CtxSection
  <1>6. CASE ReadStat(p)
    <2>1. Settled'
      BY <1>6 DEF ReadStat, Finish, Go, HolderKnows, Settled
    <2>2. HolderKnows(p)'
      BY <1>0, <1>6 DEF ReadStat, Finish, Go, HolderKnows
    <2>3. OutHeld'
      BY <1>0, <1>6 DEF ReadStat, Finish, Go, OutHeld
    <2>4. QED
      BY <1>1, <1>6, <2>1, <2>2, <2>3, CtxHolder DEF ReadStat, Finish, CtxSection
  <1>7. QED
    BY <1>2, <1>3, <1>4, <1>5, <1>6

\* The critical section of write().
LEMMA CtxWrite ==
  ASSUME CtxInv, TypeOK', QuietLife', NEW p \in Procs, WriteSteps(p)
  PROVE  CtxInv'
  <1> USE OwnerAssumption DEF CtxInv, cntvars, procvars, ctxvars, modvars
  <1>0. /\ pc \in [Procs -> Places] /\ reg \in [Procs -> Int]
        /\ out \in [Procs -> Outcomes] /\ secret \in Memory
    BY DEF TypeOK
  <1>1. \A q \in Procs \ {p} : pc[q] \notin CtxSection
    BY DEF WriteSteps, WriteLock, WriteHead, WriteTail, WriteStat, CtxHeld,
           Finish, Go, CtxSection
  <1>2. CASE WriteLock(p)
    <2>1. HolderKnows(p)'
      BY <1>0, <1>2 DEF WriteLock, Go, HolderKnows, Settled
    <2>2. OutHeld'
      BY <1>0, <1>2 DEF WriteLock, Go, OutHeld
    <2>3. QED
      BY <1>1, <1>2, <2>1, <2>2, CtxHolder DEF WriteLock, CtxSection
  <1>3. CASE WriteHead(p)
    <2>1. HolderKnows(p)'
      BY <1>0, <1>3 DEF WriteHead, Go, HolderKnows, Settled, Memory
    <2>2. OutHeld'
      BY <1>0, <1>3 DEF WriteHead, Go, OutHeld
    <2>3. ctxlock' = p
      BY <1>3 DEF WriteHead, Go, CtxHeld, CtxSection
    <2>4. QED
      BY <1>1, <1>3, <2>1, <2>2, <2>3, CtxHolder DEF WriteHead, CtxSection
  <1>4. CASE WriteTail(p)
    <2>1. secret'.head = secret'.tail
      BY <1>0, <1>4 DEF WriteTail, Go, HolderKnows, Memory
    <2>2. HolderKnows(p)'
      BY <1>0, <1>4, <2>1 DEF WriteTail, Go, HolderKnows
    <2>3. OutHeld'
      BY <1>0, <1>4 DEF WriteTail, Go, OutHeld
    <2>4. ctxlock' = p
      BY <1>4 DEF WriteTail, Go, CtxHeld, CtxSection
    <2>5. QED
      BY <1>1, <1>4, <2>2, <2>3, <2>4, CtxHolder DEF WriteTail, CtxSection
  <1>5. CASE WriteStat(p)
    <2>1. Settled'
      BY <1>5 DEF WriteStat, Finish, Go, HolderKnows, Settled
    <2>2. HolderKnows(p)'
      BY <1>0, <1>5 DEF WriteStat, Finish, Go, HolderKnows
    <2>3. OutHeld'
      BY <1>0, <1>5 DEF WriteStat, Finish, Go, OutHeld, Ret
    <2>4. QED
      BY <1>1, <1>5, <2>1, <2>2, <2>3, CtxHolder DEF WriteStat, Finish, CtxSection
  <1>6. QED
    BY <1>2, <1>3, <1>4, <1>5 DEF WriteSteps

\* Beginning a call, open(), close(), read()'s look at the length and returning
\* leave the context alone.
LEMMA CtxOthers ==
  ASSUME CtxInv, TypeOK', QuietLife', NEW p \in Procs,
         \/ Calls(p) \/ OpenSteps(p) \/ CloseSteps(p)
         \/ ReadLenRefused(p) \/ ReadLen(p) \/ Return(p)
  PROVE  CtxInv'
  <1> DEFINE Kept == /\ UNCHANGED <<mod, ctxvars>>
                     /\ \A q \in Procs \ {p} :
                          /\ req'[q] = req[q] /\ got'[q] = got[q]
                          /\ reg'[q] = reg[q] /\ slen'[q] = slen[q]
                          /\ out'[q] = out[q]
             Step(from, to) == /\ Go(p, from, to)
                               /\ out'[p].kind # "read" \/ out' = out
                               /\ from \notin CtxSection \cup {"done", "oops"}
                               /\ to \notin CtxSection
  <1> USE DEF modvars, cntvars, ctxvars, procvars
  <1>0. /\ pc \in [Procs -> Places] /\ out \in [Procs -> Outcomes]
        /\ req \in [Procs -> BufType] /\ got \in [Procs -> Received]
        /\ reg \in [Procs -> Int] /\ slen \in [Procs -> 0..MAXBYTES-1]
    BY DEF CtxInv, TypeOK
  <1>1. ASSUME Kept, NEW from, NEW to, Step(from, to)
        PROVE  CtxInv'
    <2>1. out'[p].kind # "read"
      BY <1>0, <1>1 DEF CtxInv, OutHeld, Go
    <2>2. QED
      BY <1>1, <2>1, CtxNeutral
  <1>2. CASE Calls(p)
    <2>1. Kept
      BY <1>0, <1>2 DEF Calls, Open, Close, Read, Write, WriteFails, Finish
    <2>2. CASE WriteFails(p)
      BY <1>0, <1>1, <2>1, <2>2 DEF WriteFails, Finish, Err, Ret, CtxSection
    <2>3. CASE Open(p) \/ Close(p) \/ Read(p) \/ Write(p)
      BY <1>1, <2>1, <2>3 DEF Open, Close, Read, Write, CtxSection
    <2>4. QED
      BY <1>2, <2>2, <2>3 DEF Calls
  <1>3. CASE OpenSteps(p)
    <2>1. Kept
      BY <1>0, <1>3 DEF OpenSteps, OpenCtx, OpenLock, OpenIncGa, OpenDecGb,
                        OpenReturn, Finish
    <2>2. \E from, to : Step(from, to)
      BY <1>0, <1>3 DEF OpenSteps, OpenCtx, OpenLock, OpenIncGa, OpenDecGb,
                        OpenReturn, Finish, Ret, CtxSection
    <2>3. QED
      BY <1>1, <2>1, <2>2
  <1>4. CASE CloseSteps(p)
    <2>1. Kept
      BY <1>0, <1>4 DEF CloseSteps, CloseLock, CloseDecGa, CloseIncGb,
                        CloseReturn, Finish
    <2>2. \E from, to : Step(from, to)
      BY <1>0, <1>4 DEF CloseSteps, CloseLock, CloseDecGa, CloseIncGb,
                        CloseReturn, Finish, Ret, CtxSection
    <2>3. QED
      BY <1>1, <2>1, <2>2
  <1>5. CASE ReadLenRefused(p) \/ ReadLen(p)
    <2>1. Kept
      BY <1>0, <1>5 DEF ReadLenRefused, ReadLen, TakeLen, Finish
    <2>2. Step("r_len", "done") \/ Step("r_len", "r_lock")
      BY <1>0, <1>5 DEF ReadLenRefused, ReadLen, TakeLen, Finish, Err, Ret, CtxSection
    <2>3. QED
      BY <1>1, <2>1, <2>2
  <1>6. CASE Return(p)
    <2>1. Kept /\ out'[p].kind # "read" /\ Go(p, "done", "idle")
      BY <1>0, <1>6 DEF Return, Nothing, Err, Ret
    <2>2. QED
      BY <2>1, CtxNeutral DEF CtxSection
  <1>7. QED
    BY <1>2, <1>3, <1>4, <1>5, <1>6

\* insmod finds nobody in a critical section; rmmod may find somebody there, who
\* is lost with the lock in hand.
LEMMA CtxModule ==
  ASSUME QuietInit, CtxInv, TypeOK', QuietLife', ModuleInit \/ ModuleExit
  PROVE  CtxInv'
  <1> USE OwnerAssumption DEF CtxInv, modvars, cntvars, ctxvars, procvars
  <1>0. pc \in [Procs -> Places] /\ out \in [Procs -> Outcomes]
    BY DEF TypeOK
  <1>1. CASE MiscRegister \/ AllocCtx \/ AllocCtxFails \/ MutexInit \/ StoreInitMsg
    <2>1. ~InUse /\ pc' = pc /\ out' = out
      BY <1>1 DEF MiscRegister, AllocCtx, AllocCtxFails, MutexInit, StoreInitMsg, InUse
    <2>2. \A p \in Procs : pc[p] \notin CtxSection
      BY <2>1 DEF CtxHeld
    <2>0. mod \in {"alloced", "lockinit"} => ctxlock = NoOwner /\ Settled
      BY DEF CtxHeld, TypeOK
    <2>3. ctxlock' = NoOwner => Settled'
      BY <1>1, <2>0 DEF MiscRegister, AllocCtx, AllocCtxFails, MutexInit, StoreInitMsg,
           Settled, Whole
    <2>4. InUse' \/ mod' \in {"alloced", "lockinit"} => ctxlock' = NoOwner
      BY <1>1, <2>0 DEF MiscRegister, AllocCtx, AllocCtxFails, MutexInit, StoreInitMsg, InUse
    <2>5. CtxHeld' /\ \A p \in Procs : HolderKnows(p)'
      BY <2>1, <2>2, <2>4 DEF CtxHeld, HolderKnows, CtxSection
    <2>6. OutHeld'
      BY <2>1 DEF OutHeld
    <2>7. QED
      BY <2>3, <2>5, <2>6
  <1>2. CASE DestroyLocks
    BY <1>2 DEF DestroyLocks, InUse, CtxHeld, Settled, HolderKnows, OutHeld
  <1>3. CASE MiscDeregister
    <2>1. mod' = "out" /\ UNCHANGED <<ctxvars, out>>
      BY <1>3 DEF MiscDeregister
    <2>2. \A p \in Procs : pc'[p] \in {"idle", "done", "oops"}
      BY <1>3 DEF MiscDeregister
    <2>3. CtxHeld' /\ \A p \in Procs : HolderKnows(p)'
      BY <2>1, <2>2 DEF CtxHeld, HolderKnows, CtxSection, InUse
    <2>4. OutHeld'
      BY <1>0, <1>3, <2>1 DEF OutHeld, MiscDeregister
    <2>5. QED
      BY <2>1, <2>3, <2>4 DEF Settled
  <1>4. QED
    BY <1>1, <1>2, <1>3 DEF ModuleInit, ModuleExit

\* The invariant of the context is inductive when the device is used quietly.
LEMMA CtxInvariant == QuietInit => (Spec => []CtxInv)
  <1> SUFFICES ASSUME QuietInit PROVE Spec => []CtxInv
    OBVIOUS
  <1>1. Init => CtxInv
    <2> SUFFICES ASSUME Init PROVE CtxInv
      OBVIOUS
    <2>1. TypeOK
      BY ConstantTypes, SizeAssumption, LoadAssumption DEF Init, TypeOK, Stages, Places
    <2>2. QED
      BY <2>1, OwnerAssumption
      DEF Init, CtxInv, QuietLife, CtxHeld, CtxSection, Settled, Whole,
          HolderKnows, OutHeld, Nothing, Err, Ret
  <1>2. CtxInv /\ TypeOK' /\ [Next]_vars => CtxInv'
    <2> SUFFICES ASSUME CtxInv, TypeOK', [Next]_vars PROVE CtxInv'
      OBVIOUS
    <2>0. QuietLife'
      BY QuietStep DEF CtxInv
    <2>1. CASE ModuleInit \/ ModuleExit
      BY <2>0, <2>1, CtxModule
    <2>2. ASSUME NEW p \in Procs, Calls(p) PROVE CtxInv'
      BY <2>0, <2>2, CtxOthers
    <2>3. ASSUME NEW p \in Procs, Handler(p) PROVE CtxInv'
      BY <2>0, <2>3, CtxOthers, CtxRead, CtxWrite DEF Handler, ReadSteps
    <2>4. CASE UNCHANGED vars
      BY <2>4 DEF vars, modvars, cntvars, ctxvars, procvars, CtxInv, TypeOK, QuietLife,
                  InUse, CtxHeld, Settled, HolderKnows, OutHeld
    <2>5. QED
      BY <2>1, <2>2, <2>3, <2>4 DEF Next
  <1>3. QED
    BY <1>1, <1>2, TypeCorrect, PTL DEF Spec

\* Used only between insmod and rmmod, ctx->lock keeps every pair of processes
\* apart in the critical sections of read() and write().
THEOREM CtxExclusion == QuietInit => (Spec => []CtxExclusive)
  <1>1. CtxInv => CtxExclusive
    BY DEF CtxInv, CtxHeld, CtxExclusive
  <1>2. QED
    BY <1>1, CtxInvariant, PTL

\* Used only between insmod and rmmod, no update of tx or rx is ever lost.
THEOREM StatsCorrect == QuietInit => (Spec => []StatsExact)
  <1>1. CtxInv => StatsExact
    BY DEF CtxInv, Settled, StatsExact
  <1>2. QED
    BY <1>1, CtxInvariant, PTL

-----------------------------------------------------------------------------
(* Who is lost *)

\* Whoever is in open(), or was lost without a descriptor, has misc_mtx; the rest
\* of the driver is run with a descriptor only.
OpenHeld ==
  \A p \in Procs :
    /\ pc[p] \in OpenPlaces \/ (pc[p] = "oops" /\ ~file[p]) => miscmtx = p
    /\ pc[p] \notin OpenPlaces \cup {"idle", "done", "oops"} => file[p]

\* A step of a process outside open() keeps it: nobody else moves, and only
\* close() gives a descriptor up, on its way out.
LEMMA OpenHeldNeutral ==
  ASSUME OpenHeld, TypeOK, NEW p \in Procs, NEW from, NEW to, Go(p, from, to),
         to \notin OpenPlaces \cup {"oops"} \/ (from \in OpenPlaces /\ to \in OpenPlaces),
         UNCHANGED miscmtx,
         file' = file \/ (to \in {"idle", "done"} /\ file' = [file EXCEPT ![p] = FALSE]),
         to \notin OpenPlaces \cup {"idle", "done", "oops"} => file'[p]
  PROVE  OpenHeld'
  <1>1. /\ pc \in [Procs -> Places] /\ file \in [Procs -> BOOLEAN]
        /\ pc[p] = from /\ pc' = [pc EXCEPT ![p] = to]
    BY DEF Go, TypeOK
  <1>2. pc'[p] = to /\ \A q \in Procs : q # p => pc'[q] = pc[q] /\ file'[q] = file[q]
    BY <1>1
  <1>3. QED
    BY <1>1, <1>2 DEF OpenHeld, OpenPlaces

\* insmod moves no process; rmmod finds misc_mtx free, and so nobody in open().
LEMMA OpenHeldModule ==
  ASSUME OpenHeld, TypeOK, ModuleInit \/ ModuleExit
  PROVE  OpenHeld'
  <1>1. CASE MiscDeregister
    <2>1. \A p \in Procs : /\ pc'[p] \in {"idle", "done", "oops"}
                           /\ pc'[p] = "oops" => file'[p]
      BY <1>1, OwnerAssumption DEF MiscDeregister, OpenHeld, procvars
    <2>2. \A p \in Procs : pc'[p] \notin OpenPlaces
      BY <2>1 DEF OpenPlaces
    <2>3. QED
      BY <2>1, <2>2 DEF OpenHeld
  <1>2. CASE ~MiscDeregister
    <2>1. UNCHANGED <<pc, miscmtx, file>>
      BY <1>2 DEF ModuleInit, ModuleExit, MiscRegister, AllocCtx, AllocCtxFails,
           MutexInit, StoreInitMsg, DestroyLocks
    <2>2. QED
      BY <2>1 DEF OpenHeld
  <1>3. QED
    BY <1>1, <1>2

\* A call begins with misc_mtx or with a descriptor.
LEMMA OpenHeldCalls ==
  ASSUME OpenHeld, TypeOK, NEW p \in Procs, Calls(p)
  PROVE  OpenHeld'
  <1>0. pc \in [Procs -> Places]
    BY DEF TypeOK
  <1>1. CASE Open(p)
    BY <1>0, <1>1, OwnerAssumption DEF Open, Go, OpenHeld, OpenPlaces
  <1>2. CASE ~Open(p)
    <2>1. /\ file[p] /\ UNCHANGED <<miscmtx, file>>
          /\ \E to \in {"c_lock", "r_len", "w_lock", "done"} : Go(p, "idle", to)
      BY <1>2 DEF Calls, Close, Read, Write, WriteFails, Finish
    <2>2. QED
      BY <2>1, OpenHeldNeutral DEF OpenPlaces
  <1>3. QED
    BY <1>1, <1>2

\* open() keeps misc_mtx until it returns a descriptor, or is lost with it.
LEMMA OpenHeldOpen ==
  ASSUME OpenHeld, TypeOK, NEW p \in Procs, OpenSteps(p)
  PROVE  OpenHeld'
  <1>0. pc \in [Procs -> Places] /\ file \in [Procs -> BOOLEAN]
    BY DEF TypeOK
  <1>1. CASE OpenReturn(p)
    <2>1. /\ pc[p] = "o_ret" /\ pc' = [pc EXCEPT ![p] = "done"]
          /\ file' = [file EXCEPT ![p] = TRUE]
      BY <1>1 DEF OpenReturn, Finish, Go
    <2>2. miscmtx = p
      BY <2>1 DEF OpenHeld, OpenPlaces
    <2>3. QED
      BY <1>0, <2>1, <2>2 DEF OpenHeld, OpenPlaces
  <1>2. CASE OpenCtx(p)
    <2>1. /\ pc[p] = "o_ctx" /\ UNCHANGED <<miscmtx, file>>
          /\ \E to \in {"oops", "o_lock"} : pc' = [pc EXCEPT ![p] = to]
      BY <1>2 DEF OpenCtx, Go
    <2>2. QED
      BY <1>0, <2>1 DEF OpenHeld, OpenPlaces
  <1>3. CASE OpenLock(p) \/ OpenIncGa(p) \/ OpenDecGb(p)
    <2>1. /\ UNCHANGED <<miscmtx, file>>
          /\ \E from \in OpenPlaces, to \in OpenPlaces : Go(p, from, to)
      BY <1>3 DEF OpenLock, OpenIncGa, OpenDecGb, OpenPlaces
    <2>2. QED
      BY <2>1, OpenHeldNeutral
  <1>4. QED
    BY <1>1, <1>2, <1>3 DEF OpenSteps

\* close(), read(), write() and returning leave misc_mtx alone.
LEMMA OpenHeldOthers ==
  ASSUME OpenHeld, TypeOK, NEW p \in Procs,
         CloseSteps(p) \/ ReadSteps(p) \/ WriteSteps(p) \/ Return(p)
  PROVE  OpenHeld'
  <1>1. CASE CloseReturn(p)
    <2>1. /\ Go(p, "c_ret", "done") /\ UNCHANGED miscmtx
          /\ file' = [file EXCEPT ![p] = FALSE]
      BY <1>1 DEF CloseReturn, Finish
    <2>2. QED
      BY <2>1, OpenHeldNeutral DEF OpenPlaces
  <1>2. CASE Return(p)
    <2>1. Go(p, "done", "idle") /\ UNCHANGED <<miscmtx, file>>
      BY <1>2 DEF Return
    <2>2. QED
      BY <2>1, OpenHeldNeutral DEF OpenPlaces
  <1>3. CASE ~CloseReturn(p) /\ ~Return(p)
    <2>1. /\ UNCHANGED <<miscmtx, file>>
          /\ \E from \in Places \ ({"idle", "done", "oops"} \cup OpenPlaces),
                to \in Places \ ({"idle", "oops"} \cup OpenPlaces) : Go(p, from, to)
      BY <1>3 DEF CloseSteps, ReadSteps, WriteSteps, CloseLock, CloseDecGa, CloseIncGb,
           ReadLenRefused, ReadLen, TakeLen, ReadLock, ReadCopyHead, ReadCopyTail,
           ReadFault, ReadStat, WriteLock, WriteHead, WriteTail, WriteStat, Finish,
           Places, OpenPlaces, Lock1Section, CtxSection
    <2>2. PICK from \in Places \ ({"idle", "done", "oops"} \cup OpenPlaces),
               to \in Places \ ({"idle", "oops"} \cup OpenPlaces) : Go(p, from, to)
      BY <2>1
    <2>3. file[p]
      BY <2>2 DEF Go, OpenHeld
    <2>4. QED
      BY <2>1, <2>2, <2>3, OpenHeldNeutral
  <1>4. QED
    BY <1>1, <1>2, <1>3

\* Whoever uses the device while it is inserted and removed, module_exit takes the
\* code from under those only that hold a descriptor: misc_mtx keeps it from an
\* open() that is running, although the fops have no .owner.
THEOREM RemovalCorrect == Spec => RemovalSparesOpen
  <1>1. Init => OpenHeld
    BY DEF Init, OpenHeld, OpenPlaces
  <1>2. OpenHeld /\ TypeOK /\ [Next]_vars => OpenHeld'
    <2> SUFFICES ASSUME OpenHeld, TypeOK, [Next]_vars PROVE OpenHeld'
      OBVIOUS
    <2>1. CASE ModuleInit \/ ModuleExit
      BY <2>1, OpenHeldModule
    <2>2. ASSUME NEW p \in Procs, Calls(p) PROVE OpenHeld'
      BY <2>2, OpenHeldCalls
    <2>3. ASSUME NEW p \in Procs, Handler(p) PROVE OpenHeld'
      BY <2>3, OpenHeldOpen, OpenHeldOthers DEF Handler
    <2>4. CASE UNCHANGED vars
      BY <2>4 DEF vars, OpenHeld
    <2>5. QED
      BY <2>1, <2>2, <2>3, <2>4 DEF Next
  <1>3. OpenHeld /\ TypeOK /\ [Next]_vars =>
          [mod = "exiting" /\ mod' = "out" =>
             \A p \in Procs : pc'[p] = "oops" => file[p]]_vars
    <2> SUFFICES ASSUME OpenHeld, TypeOK, [Next]_vars, mod = "exiting", mod' = "out",
                        NEW p \in Procs, pc'[p] = "oops"
                 PROVE  file[p]
      OBVIOUS
    <2>1. ASSUME NEW q \in Procs, Calls(q) \/ Handler(q) PROVE mod' = mod
      BY <2>1
      DEF Calls, Open, Close, Read, Write, WriteFails, Handler, OpenSteps, OpenCtx,
          OpenLock, OpenIncGa, OpenDecGb, OpenReturn, CloseSteps, CloseLock, CloseDecGa,
          CloseIncGb, CloseReturn, ReadSteps, ReadLenRefused, ReadLen, TakeLen, ReadLock,
          ReadCopyHead, ReadCopyTail, ReadFault, ReadStat, WriteSteps, WriteLock,
          WriteHead, WriteTail, WriteStat, Return, modvars
    <2>2. MiscDeregister
      BY <2>1 DEF Next, ModuleInit, ModuleExit, MiscRegister, AllocCtx, AllocCtxFails,
           MutexInit, StoreInitMsg, DestroyLocks, vars, modvars
    <2>3. QED
      BY <2>2, OwnerAssumption DEF MiscDeregister, OpenHeld
  <1>4. QED
    BY <1>1, <1>2, <1>3, TypeCorrect, PTL DEF Spec, RemovalSparesOpen

-----------------------------------------------------------------------------
(* The driver implements SecretStore *)

\* A process has a length from the first section of its read until it returns.
Measured ==
  \A p \in Procs : /\ pc[p] \in {"idle", "r_len"} => slen[p] = 0
                   /\ pc[p] \in {"r_lock", "r_front", "r_back", "r_stat"} => slen[p] > 0

\* Only read() finds a length, and only returning to the process forgets it.
LEMMA MeasuredStep ==
  ASSUME Measured, TypeOK, [Next]_vars
  PROVE  Measured'
  <1> USE DEF modvars, cntvars, ctxvars, procvars
  <1>0. pc \in [Procs -> Places] /\ slen \in [Procs -> 0..MAXBYTES-1]
    BY DEF TypeOK
  <1>1. CASE ModuleInit \/ ModuleExit
    BY <1>0, <1>1 DEF Measured, ModuleInit, ModuleExit, MiscRegister, AllocCtx,
         AllocCtxFails, MutexInit, StoreInitMsg, DestroyLocks, MiscDeregister
  <1>2. ASSUME NEW p \in Procs, Calls(p) PROVE Measured'
    BY <1>0, <1>2 DEF Measured, Calls, Open, Close, Read, Write, WriteFails, Finish, Go
  <1>3. ASSUME NEW p \in Procs, OpenSteps(p) \/ CloseSteps(p) PROVE Measured'
    BY <1>0, <1>3
    DEF Measured, OpenSteps, OpenCtx, OpenLock, OpenIncGa, OpenDecGb, OpenReturn,
        CloseSteps, CloseLock, CloseDecGa, CloseIncGb, CloseReturn, Finish, Go
  <1>4. ASSUME NEW p \in Procs, ReadLen(p) PROVE Measured'
    <2>1. PICK n \in StrLen(secret) : n > 0 /\ slen' = [slen EXCEPT ![p] = n]
      BY <1>4 DEF ReadLen
    <2>2. pc' = [pc EXCEPT ![p] = "r_lock"]
      BY <1>4 DEF ReadLen, Go
    <2>3. QED
      BY <1>0, <2>1, <2>2 DEF Measured
  <1>5. ASSUME NEW p \in Procs, ReadSteps(p) \/ WriteSteps(p), ~ReadLen(p)
        PROVE  Measured'
    BY <1>0, <1>5
    DEF Measured, ReadSteps, ReadLenRefused, TakeLen, ReadLock, ReadCopyHead,
        ReadCopyTail, ReadFault, ReadStat, WriteSteps, WriteLock, WriteHead, WriteTail,
        WriteStat, Finish, Go
  <1>6. ASSUME NEW p \in Procs, Return(p) PROVE Measured'
    BY <1>0, <1>6 DEF Measured, Return, Go
  <1>7. CASE UNCHANGED vars
    BY <1>7 DEF Measured, vars
  <1>8. QED
    BY <1>1, <1>2, <1>3, <1>4, <1>5, <1>6, <1>7 DEF Next, Handler

\* What SecretStore sees as a process's result.
SeenBy(p) == [copy |-> IF out[p].kind = "read" THEN got[p] ELSE NoCopy,
              count |-> IF out[p].kind = "read" THEN out[p].n ELSE 0]
Seen == [p \in Procs |-> SeenBy(p)]

\* Whole pieces of the driver's memory are what SecretStore calls Bytes.
LEMMA BytesAre ==
  /\ \A s, n : Store!Bytes(s, n) = [copy |-> Whole(Copied(s, n)), count |-> n]
  /\ Store!NoResult = [copy |-> NoCopy, count |-> 0]
  BY DEF Store!Bytes, Store!Half, Store!NoResult, Whole, Copied, NoCopy, Init0

\* Every step of the driver is a step of SecretStore, or one it does not see.
LEMMA StoreStep ==
  ASSUME QuietInit, CtxInv, CtxInv', Measured, [Next]_vars
  PROVE  [Store!Next]_<<secret.tail, slen, Seen>>
  <1> DEFINE R == [p \in Procs |-> SeenBy(p)]
  <1> USE DEF modvars, cntvars, ctxvars, procvars, Seen
  <1>0. /\ out \in [Procs -> Outcomes] /\ got \in [Procs -> Received] /\ secret \in Memory
        /\ req \in [Procs -> BufType] /\ pc \in [Procs -> Places]
        /\ slen \in [Procs -> 0..MAXBYTES-1]
    BY DEF CtxInv, TypeOK
  <1> HIDE DEF R
  <1>1. ASSUME ModuleInit \/ ModuleExit
        PROVE  Store!Start \/ UNCHANGED <<secret.tail, slen, R>>
    <2>1. R' = R /\ slen' = slen
      BY <1>1 DEF R, SeenBy, ModuleInit, ModuleExit, MiscRegister, AllocCtx,
           AllocCtxFails, MutexInit, StoreInitMsg, DestroyLocks, MiscDeregister
    <2>2. secret'.tail \in {Init0, [text |-> InitMsg, len |-> InitLen]} \/ secret' = secret
      BY <1>1 DEF Whole, ModuleInit, ModuleExit, MiscRegister, AllocCtx, AllocCtxFails,
           MutexInit, StoreInitMsg, DestroyLocks, MiscDeregister
    <2>3. QED
      BY <2>1, <2>2 DEF Store!Start, R, SeenBy
  <1>2. ASSUME NEW p \in Procs, ReadLen(p)
        PROVE  Store!Measure(p)
    <2>1. PICK n \in StrLen(secret) :
            n > 0 /\ slen' = [slen EXCEPT ![p] = n] /\ TakeLen(p, n)
      BY <1>2 DEF ReadLen
    <2>2. secret.head = secret.tail
      BY <2>1 DEF TakeLen, CtxInv, Settled
    <2>3. n = secret.tail.len
      BY <2>1, <2>2 DEF StrLen
    <2>4. slen[p] = 0
      <3>1. pc[p] = "r_len"
        BY <1>2 DEF ReadLen, Go
      <3>2. QED
        BY <3>1 DEF Measured
    <2>5. secret' = secret /\ out' = out /\ got' = got
      BY <1>2, <2>1 DEF ReadLen, TakeLen
    <2>6. R' = R
      BY <2>5 DEF R, SeenBy
    <2>7. QED
      BY <2>1, <2>3, <2>4, <2>5, <2>6 DEF Store!Measure, R, SeenBy
  <1>3. ASSUME NEW p \in Procs, ReadStat(p)
        PROVE  Store!Get(p)
    <2>1. /\ secret' = secret /\ got' = got /\ slen' = slen /\ slen[p] > 0
          /\ got[p] = Whole(Copied(secret.tail, slen[p]))
          /\ out' = [out EXCEPT ![p] = Ret("read", slen[p])]
      BY <1>0, <1>3 DEF ReadStat, Finish, Go, CtxInv, HolderKnows, Measured
    <2>2. out[p].kind # "read"
      BY <1>3 DEF ReadStat, Finish, Go, CtxInv, OutHeld
    <2>3. R[p] = Store!NoResult
      BY <2>2, BytesAre DEF R, SeenBy
    <2>4. out'[p].kind = "read" /\ out'[p].n = slen[p]
      BY <1>0, <2>1 DEF Ret
    <2>5. \A q \in Procs : q # p => out'[q] = out[q]
      BY <1>0, <2>1
    <2>6. SeenBy(p)' = Store!Bytes(secret.tail, slen[p])
      BY <2>1, <2>4, BytesAre DEF SeenBy
    <2>7. \A q \in Procs : q # p => SeenBy(q)' = SeenBy(q)
      BY <2>1, <2>5 DEF SeenBy
    <2>8. R' = [R EXCEPT ![p] = Store!Bytes(secret.tail, slen[p])]
      BY <2>6, <2>7 DEF R
    <2>9. QED
      BY <2>1, <2>3, <2>8 DEF Store!Get, R, SeenBy
  <1>4. ASSUME NEW p \in Procs, WriteTail(p)
        PROVE  Store!Put \/ UNCHANGED <<secret.tail, slen, R>>
    <2>1. R' = R /\ slen' = slen
      BY <1>4 DEF WriteTail, R, SeenBy
    <2>2. secret'.tail \in String
      BY DEF CtxInv, TypeOK, Memory
    <2>3. QED
      BY <2>1, <2>2 DEF Store!Put, R, SeenBy
  <1>5. ASSUME NEW p \in Procs, Return(p)
        PROVE  Store!Forget(p)
    <2>1. /\ secret' = secret /\ out' = [out EXCEPT ![p] = Nothing]
          /\ got' = [got EXCEPT ![p] = NoCopy] /\ slen' = [slen EXCEPT ![p] = 0]
      BY <1>5 DEF Return
    <2>2. out'[p].kind # "read" /\ \A q \in Procs : q # p => out'[q] = out[q] /\ got'[q] = got[q]
      BY <1>0, <2>1 DEF Nothing, Err, Ret
    <2>3. SeenBy(p)' = Store!NoResult /\ \A q \in Procs : q # p => SeenBy(q)' = SeenBy(q)
      BY <2>2, BytesAre DEF SeenBy
    <2>4. R' = [R EXCEPT ![p] = Store!NoResult]
      BY <2>3 DEF R
    <2>5. QED
      BY <2>1, <2>4 DEF Store!Forget, R, SeenBy
  <1>6. ASSUME NEW p \in Procs, Calls(p) \/ Handler(p),
               ~ReadLen(p), ~ReadStat(p), ~WriteTail(p), ~Return(p)
        PROVE  UNCHANGED <<secret.tail, slen, R>>
    <2>1. secret'.tail = secret.tail /\ slen' = slen
      BY <1>0, <1>6
      DEF Calls, Open, Close, Read, Write, WriteFails, Handler, OpenSteps, OpenCtx,
          OpenLock, OpenIncGa, OpenDecGb, OpenReturn, CloseSteps,
          CloseLock, CloseDecGa, CloseIncGb, CloseReturn, ReadSteps,
          ReadLenRefused, ReadLen, TakeLen, ReadLock, ReadCopyHead, ReadCopyTail,
          ReadFault, WriteSteps, WriteLock, WriteHead, WriteStat, Memory
    <2>2. \A q \in Procs \ {p} : out'[q] = out[q] /\ got'[q] = got[q]
      BY <1>0, <1>6
      DEF Calls, Open, Close, Read, Write, WriteFails, Handler, OpenSteps, OpenCtx,
          OpenLock, OpenIncGa, OpenDecGb, OpenReturn, CloseSteps,
          CloseLock, CloseDecGa, CloseIncGb, CloseReturn, ReadSteps,
          ReadLenRefused, ReadLen, TakeLen, ReadLock, ReadCopyHead, ReadCopyTail,
          ReadFault, WriteSteps, WriteLock, WriteHead, WriteStat, Finish
    <2>3. out[p].kind # "read" /\ out'[p].kind # "read"
      <3>1. pc[p] \notin {"done", "oops"}
        BY <1>6
        DEF Calls, Open, Close, Read, Write, WriteFails, Handler, OpenSteps, OpenCtx,
            OpenLock, OpenIncGa, OpenDecGb, OpenReturn, CloseSteps,
            CloseLock, CloseDecGa, CloseIncGb, CloseReturn, ReadSteps,
            ReadLenRefused, ReadLen, ReadLock, ReadCopyHead, ReadCopyTail,
            ReadFault, WriteSteps, WriteLock, WriteHead, WriteStat, Finish, Go
      <3>2. out[p].kind # "read"
        BY <3>1 DEF CtxInv, OutHeld
      <3>3. out' = out \/ out'[p].kind # "read"
        BY <1>0, <1>6
        DEF Calls, Open, Close, Read, Write, WriteFails, Handler, OpenSteps, OpenCtx,
            OpenLock, OpenIncGa, OpenDecGb, OpenReturn, CloseSteps,
            CloseLock, CloseDecGa, CloseIncGb, CloseReturn, ReadSteps,
            ReadLenRefused, ReadLen, TakeLen, ReadLock, ReadCopyHead, ReadCopyTail,
            ReadFault, WriteSteps, WriteLock, WriteHead, WriteStat, Finish, Err, Ret
      <3>4. QED
        BY <3>2, <3>3
    <2>4. \A q \in Procs : SeenBy(q)' = SeenBy(q)
      BY <2>2, <2>3 DEF SeenBy, Whole, Init0
    <2>5. R' = R
      BY <2>4 DEF R
    <2>6. QED
      BY <2>1, <2>5
  <1>7. CASE UNCHANGED vars
    BY <1>7 DEF vars, SeenBy, R
  <1>8. QED
    BY <1>1, <1>2, <1>3, <1>4, <1>5, <1>6, <1>7
    DEF Next, Store!Next, R, SeenBy

\* If nobody uses the device before it is inserted, the driver implements
\* SecretStore, even while it is removed: a read hands out bytes of exactly one
\* stored secret, never of two, as many as the secret it measured first had.
THEOREM StoreImplemented == QuietInit => (Spec => StoreSpec)
  <1> SUFFICES ASSUME QuietInit PROVE Spec => StoreSpec
    OBVIOUS
  <1>1. Init => Store!Init
    BY BytesAre DEF Init, Store!Init, Whole, Nothing, Err, Ret
  <1>2. Init => Measured
    BY DEF Init, Measured
  <1>3. Measured /\ TypeOK /\ [Next]_vars => Measured'
    BY MeasuredStep
  <1>4. CtxInv /\ CtxInv' /\ Measured /\ [Next]_vars =>
          [Store!Next]_<<secret.tail, slen, Seen>>
    BY StoreStep
  <1>5. QED
    BY <1>1, <1>2, <1>3, <1>4, CtxInvariant, TypeCorrect, PTL
    DEF Spec, StoreSpec, Store!Spec, Seen, SeenBy
=============================================================================
