------------------------------- MODULE DupMmap -------------------------------
(***************************************************************************)
(* The address space and the executable file of a process across fork():   *)
(* dup_mmap() copies the areas of an mm one by one and may fail anywhere,  *)
(* dup_mm_exe_file() copies the reference to the executable and denies     *)
(* write access to it once more, while other threads of the parent map and *)
(* unmap, replace the executable (prctl()), read it through /proc, exec()  *)
(* and exit, and somebody tries to open the files for writing.             *)
(*                                                                         *)
(* From dup_mm_exe_file() to get_task_exe_file() of kernel/fork.c;         *)
(* deny_write_access() and the file and area helpers are outside the       *)
(* repository and modelled by what they do to their counters.              *)
(***************************************************************************)
EXTENDS Integers, Sequences, FiniteSets, SequencesExt

CONSTANTS
    Files,      \* the files, each opened once
    Replacers,  \* the threads of the parent that call prctl(PR_SET_MM_EXE_FILE)
    parent, child, fresh,   \* the parent's mm, the copy, and the mm of an exec()
    None,       \* no file
    FirstFile,  \* what the parent executes
    Scenarios   \* what happens in a behaviour: areas (those that may be mapped), first (the areas of
                \* the parent at first, a sequence), max (a bound on the areas at a time) and uses (some
                \* of "map", "replace", "write", "observe", "exec")

Mms == {parent, child, fresh}

FileAssumption == FirstFile \in Files /\ None \notin Files
AreaAssumption ==
    \A s \in Scenarios :
      /\ \A a \in s.areas : a.file \in Files \cup {None} /\ {a.account, a.shared, a.dontcopy, a.wipe} \subseteq BOOLEAN
      /\ s.max \in Nat /\ s.first \in Seq(s.areas) /\ Len(s.first) <= s.max

VARIABLES
    scenario,   \* the one of this behaviour
    mmst,       \* mmst[m]: "none", "building", "live" or "failed"
    vmas,       \* vmas[m]: the areas of m, in order
    total_vm,   \* total_vm[m]
    exe_file,   \* m->exe_file
    fcount,     \* fcount[f]: file->f_count; at 0 the file is gone
    fds,        \* the files somebody has open
    writecount, \* writecount[f]: inode->i_writecount, the writers or minus the denials
    writable,   \* writable[f]: mapping->i_mmap_writable
    committed, areas, policies,   \* charged pages, vm_area_structs and policy references
    pc,         \* where dup_mmap() is
    next,       \* the index of the area it is at
    held,       \* what it has taken for that area
    got,        \* the file get_mm_exe_file(oldmm) has read
    rpc, rnew, rold,   \* per replacer: where it is, its new file and the old one it has
    writer,     \* the file somebody has open for writing
    peek,       \* where get_task_exe_file() is: the mm and the pointer it has read, or None
    seen,       \* what get_task_exe_file() returned and its caller still holds
    bprm        \* the file exec() has opened

forkVars == <<pc, next, held, got>>
replVars == <<rpc, rnew, rold>>
countVars == <<committed, areas, policies>>
otherVars == <<writer, peek, seen, bprm>>
vars == <<scenario, mmst, vmas, total_vm, exe_file, fcount, fds, writecount, writable, countVars, forkVars, replVars, otherVars>>

CountAreas(s, P(_)) == Cardinality({i \in DOMAIN s : P(s[i])})
Accounted(s) == CountAreas(s, LAMBDA a : a.account)
Maps(s, f) == CountAreas(s, LAMBDA a : a.file = f)
SharedMaps(s, f) == CountAreas(s, LAMBDA a : a.file = f /\ a.shared)

Init ==
    /\ scenario \in Scenarios
    /\ mmst = [m \in Mms |-> IF m = parent THEN "live" ELSE "none"]
    /\ vmas = [m \in Mms |-> IF m = parent THEN scenario.first ELSE <<>>]
    /\ total_vm = [m \in Mms |-> IF m = parent THEN Len(scenario.first) ELSE 0]
    /\ exe_file = [m \in Mms |-> IF m = parent THEN FirstFile ELSE None]
    /\ fds = Files
    /\ fcount = [f \in Files |-> 1 + Maps(scenario.first, f) + (IF f = FirstFile THEN 1 ELSE 0)]
    /\ writecount = [f \in Files |-> IF f = FirstFile THEN -1 ELSE 0]
    /\ writable = [f \in Files |-> SharedMaps(scenario.first, f)]
    /\ committed = Accounted(scenario.first) /\ areas = Len(scenario.first) /\ policies = Len(scenario.first)
    /\ pc = "idle" /\ next = 1 /\ held = {} /\ got = None
    /\ rpc = [r \in Replacers |-> "idle"]
    /\ rnew = [r \in Replacers |-> None] /\ rold = [r \in Replacers |-> None]
    /\ writer = None /\ peek = None /\ seen = None /\ bprm = None

-----------------------------------------------------------------------------
(* Helpers on the counters *)

get_file(fc, f) == IF f = None THEN fc ELSE [fc EXCEPT ![f] = @ + 1]
fput(fc, f) == IF f = None THEN fc ELSE [fc EXCEPT ![f] = @ - 1]
Denied(f) == writecount[f] <= 0     \* deny_write_access() succeeds
deny_write_access(f) == writecount' = [writecount EXCEPT ![f] = @ - 1]
allow_write_access(wc, f) == IF f = None THEN wc ELSE [wc EXCEPT ![f] = @ + 1]

\* dup_mmap() holds the mmap_lock of the parent for writing.
MmapLocked == pc \notin {"idle", "start"}

-----------------------------------------------------------------------------
(* dup_mmap() *)

\* A new mm; dup_mmap() may be killed while it waits for the lock.
dup_mm ==
    /\ pc = "idle" /\ mmst[child] = "none"
    /\ mmst' = [mmst EXCEPT ![child] = "building"]
    /\ pc' = "start" /\ next' = 1
    /\ UNCHANGED <<vmas, total_vm, exe_file, fcount, fds, writecount, writable, countVars, held, got, replVars, otherVars>>

FailFork == mmst' = [mmst EXCEPT ![child] = "failed"] /\ pc' = "idle"

mmap_write_lock(killed) ==
    /\ pc = "start"
    /\ IF killed THEN FailFork ELSE pc' = "deref" /\ UNCHANGED mmst
    /\ UNCHANGED <<vmas, total_vm, exe_file, fcount, fds, writecount, writable, countVars, next, held, got, replVars, otherVars>>

\* get_mm_exe_file(oldmm): the pointer, then the reference unless the file is gone.
get_mm_exe_file_deref ==
    /\ pc = "deref"
    /\ got' = exe_file[parent] /\ pc' = "get"
    /\ UNCHANGED <<mmst, vmas, total_vm, exe_file, fcount, fds, writecount, writable, countVars, next, held, replVars, otherVars>>

get_mm_exe_file ==
    /\ pc = "get"
    /\ LET f == IF got # None /\ fcount[got] = 0 THEN None ELSE got IN
       /\ fcount' = get_file(fcount, f)
       /\ exe_file' = [exe_file EXCEPT ![child] = f]
       /\ got' = f
    /\ pc' = "deny"
    /\ UNCHANGED <<mmst, vmas, total_vm, fds, writecount, writable, countVars, next, held, replVars, otherVars>>

\* Bug: the child relies on the denial of its parent.
dup_mm_exe_file_no_deny ==
    /\ pc = "deny"
    /\ total_vm' = [total_vm EXCEPT ![child] = total_vm[parent]]
    /\ got' = None
    /\ pc' = "vma" /\ UNCHANGED <<mmst, writecount>>
    /\ UNCHANGED <<vmas, exe_file, fcount, fds, writable, countVars, next, held, replVars, otherVars>>

\* A denial that fails is only logged.  Then the totals are copied; ksm_fork() or khugepaged_fork()
\* may fail.
dup_mm_exe_file ==
    /\ pc = "deny"
    /\ IF got # None /\ Denied(got) THEN deny_write_access(got) ELSE UNCHANGED writecount
    /\ total_vm' = [total_vm EXCEPT ![child] = total_vm[parent]]
    /\ got' = None
    /\ \/ pc' = "vma" /\ UNCHANGED mmst
       \/ FailFork
    /\ UNCHANGED <<vmas, exe_file, fcount, fds, writable, countVars, next, held, replVars, otherVars>>

\* vm_stat_account() for an area with VM_DONTCOPY.
SkippedPages == 1

\* The next area: skipped, or the memory for it is charged if it is accounted; a fatal signal or the
\* overcommit limit ends the loop.
dup_mmap_charge(ok) ==
    /\ pc = "vma" /\ next <= Len(vmas[parent])
    /\ LET mpnt == vmas[parent][next] IN
       CASE mpnt.dontcopy ->
              /\ ok /\ total_vm' = [total_vm EXCEPT ![child] = @ - SkippedPages]
              /\ next' = next + 1 /\ UNCHANGED <<committed, held, pc, mmst>>
         [] ~mpnt.dontcopy /\ ok ->
              /\ committed' = IF mpnt.account THEN committed + 1 ELSE committed
              /\ held' = IF mpnt.account THEN {"charge"} ELSE {}
              /\ pc' = "area" /\ UNCHANGED <<next, total_vm, mmst>>
         [] OTHER -> FailFork /\ UNCHANGED <<committed, held, next, total_vm>>
    /\ UNCHANGED <<vmas, exe_file, fcount, fds, writecount, writable, areas, policies, got, replVars, otherVars>>

\* The labels at the end of dup_mmap(): what each gives back.
Labels == [fail_nomem_anon_vma_fork |-> {"policy", "area", "charge"},
           fail_nomem_policy |-> {"area", "charge"}, fail_nomem |-> {"charge"}]

GoTo(label) ==
    LET back == Labels[label] \cap held IN
    /\ committed' = IF "charge" \in back THEN committed - 1 ELSE committed
    /\ areas' = IF "area" \in back THEN areas - 1 ELSE areas
    /\ policies' = IF "policy" \in back THEN policies - 1 ELSE policies
    /\ held' = {} /\ FailFork

vm_area_dup(ok) ==
    /\ pc = "area"
    /\ \/ /\ ok /\ areas' = areas + 1 /\ held' = held \cup {"area"} /\ pc' = "policy"
          /\ UNCHANGED <<committed, policies, mmst>>
       \/ ~ok /\ GoTo("fail_nomem")
    /\ UNCHANGED <<vmas, total_vm, exe_file, fcount, fds, writecount, writable, next, got, replVars, otherVars>>

vma_dup_policy(ok) ==
    /\ pc = "policy"
    /\ \/ /\ ok /\ policies' = policies + 1 /\ held' = held \cup {"policy"} /\ pc' = "anon"
          /\ UNCHANGED <<committed, areas, mmst>>
       \/ ~ok /\ GoTo("fail_nomem_policy")
    /\ UNCHANGED <<vmas, total_vm, exe_file, fcount, fds, writecount, writable, next, got, replVars, otherVars>>

\* Bug: a failure of anon_vma_fork() skips the policy.
dup_anon_vma_label(ok) ==
    /\ pc = "anon"
    /\ \/ ok /\ pc' = "link" /\ UNCHANGED <<countVars, held, mmst>>
       \/ ~ok /\ GoTo("fail_nomem_policy")
    /\ UNCHANGED <<vmas, total_vm, exe_file, fcount, fds, writecount, writable, next, got, replVars, otherVars>>

\* dup_userfaultfd(), and anon_vma_fork() unless the child starts with a clean area.
dup_anon_vma(ok) ==
    /\ pc = "anon"
    /\ \/ ok /\ pc' = "link" /\ UNCHANGED <<countVars, held, mmst>>
       \/ ~ok /\ GoTo("fail_nomem_anon_vma_fork")
    /\ UNCHANGED <<vmas, total_vm, exe_file, fcount, fds, writecount, writable, next, got, replVars, otherVars>>

\* The area is linked into the child, with its file; copy_page_range() may fail afterwards, and does
\* nothing for a clean area.
dup_mmap_link(copied) ==
    LET mpnt == vmas[parent][next] IN
    /\ pc = "link" /\ (mpnt.wipe => copied)
    /\ fcount' = get_file(fcount, mpnt.file)
    /\ writable' = IF mpnt.file # None /\ mpnt.shared THEN [writable EXCEPT ![mpnt.file] = @ + 1] ELSE writable
    /\ vmas' = [vmas EXCEPT ![child] = Append(@, mpnt)]
    /\ held' = {} /\ next' = next + 1
    /\ IF copied THEN pc' = "vma" /\ UNCHANGED mmst ELSE FailFork
    /\ UNCHANGED <<total_vm, exe_file, fds, writecount, countVars, got, replVars, otherVars>>

\* All areas are copied; arch_dup_mmap() or the module of the binary format may fail yet.
dup_mmap_out(ok) ==
    /\ pc = "vma" /\ next > Len(vmas[parent])
    /\ IF ok THEN mmst' = [mmst EXCEPT ![child] = "live"] /\ pc' = "idle" ELSE FailFork
    /\ UNCHANGED <<vmas, total_vm, exe_file, fcount, fds, writecount, writable, countVars, next, held, got, replVars, otherVars>>

-----------------------------------------------------------------------------
(* The end of an mm, and exec() *)

\* f is a file to which write access can be denied, or None.
set_mm_exe_file(m, f) ==
    /\ exe_file' = [exe_file EXCEPT ![m] = f]
    /\ fcount' = fput(get_file(fcount, f), exe_file[m])
    /\ writecount' = [g \in Files |-> writecount[g] - (IF g = f THEN 1 ELSE 0) + (IF g = exe_file[m] THEN 1 ELSE 0)]

\* __mmput() of a child that exits or was not completed: exit_mmap(), set_mm_exe_file(mm, NULL).  A task
\* does not give up its mm while get_task_exe_file() holds its task_lock.
__mmput(m) ==
    /\ m # parent /\ mmst[m] \in {"live", "failed"} /\ (peek # None => peek.mm # m)
    /\ mmst' = [mmst EXCEPT ![m] = "none"] /\ vmas' = [vmas EXCEPT ![m] = <<>>]
    /\ total_vm' = [total_vm EXCEPT ![m] = 0]
    /\ exe_file' = [exe_file EXCEPT ![m] = None]
    /\ LET fc == [f \in Files |-> fcount[f] - Maps(vmas[m], f)] IN fcount' = fput(fc, exe_file[m])
    /\ writable' = [f \in Files |-> writable[f] - SharedMaps(vmas[m], f)]
    /\ writecount' = allow_write_access(writecount, exe_file[m])
    /\ committed' = committed - Accounted(vmas[m])
    /\ areas' = areas - Len(vmas[m]) /\ policies' = policies - Len(vmas[m])
    /\ UNCHANGED <<fds, forkVars, replVars, otherVars>>

\* exec() opens the file and denies write access to it ...
do_open_execat(f) ==
    /\ "exec" \in scenario.uses /\ bprm = None /\ mmst[fresh] = "none" /\ f \in fds /\ Denied(f)
    /\ bprm' = f /\ fcount' = get_file(fcount, f) /\ deny_write_access(f)
    /\ UNCHANGED <<mmst, vmas, total_vm, exe_file, fds, writable, countVars, forkVars, replVars, writer, peek, seen>>

\* ... gives it to its new mm ...
begin_new_exec ==
    /\ bprm # None /\ mmst[fresh] = "none"
    /\ IF Denied(bprm)
       THEN set_mm_exe_file(fresh, bprm) /\ mmst' = [mmst EXCEPT ![fresh] = "building"]
       ELSE mmst' = [mmst EXCEPT ![fresh] = "failed"] /\ UNCHANGED <<exe_file, fcount, writecount>>
    /\ UNCHANGED <<vmas, total_vm, fds, writable, countVars, forkVars, replVars, otherVars>>

\* ... and closes it.
free_bprm ==
    /\ bprm # None /\ mmst[fresh] \in {"building", "failed"}
    /\ writecount' = allow_write_access(writecount, bprm) /\ fcount' = fput(fcount, bprm) /\ bprm' = None
    /\ mmst' = [mmst EXCEPT ![fresh] = IF @ = "building" THEN "live" ELSE @]
    /\ UNCHANGED <<vmas, total_vm, exe_file, fds, writable, countVars, forkVars, replVars, writer, peek, seen>>

-----------------------------------------------------------------------------
(* Other threads of the parent *)

\* replace_mm_exe_file(): the caller holds its new file; get_mm_exe_file() reads the pointer to the old one ...
replace_mm_exe_file(r, f) ==
    /\ "replace" \in scenario.uses /\ rpc[r] = "idle" /\ f \in fds
    /\ rnew' = [rnew EXCEPT ![r] = f] /\ rold' = [rold EXCEPT ![r] = exe_file[parent]]
    /\ fcount' = get_file(fcount, f)
    /\ rpc' = [rpc EXCEPT ![r] = IF exe_file[parent] = None THEN "deny" ELSE "get"]
    /\ UNCHANGED <<mmst, vmas, total_vm, exe_file, fds, writecount, writable, countVars, forkVars, otherVars>>

\* ... and takes a reference unless that file is gone meanwhile: then its areas are not looked for.
replace_get(r) ==
    /\ rpc[r] = "get"
    /\ IF fcount[rold[r]] = 0
       THEN rold' = [rold EXCEPT ![r] = None] /\ rpc' = [rpc EXCEPT ![r] = "deny"] /\ UNCHANGED fcount
       ELSE fcount' = get_file(fcount, rold[r]) /\ rpc' = [rpc EXCEPT ![r] = "check"] /\ UNCHANGED rold
    /\ UNCHANGED <<mmst, vmas, total_vm, exe_file, fds, writecount, writable, countVars, forkVars, rnew, otherVars>>

\* The old file is looked for in the areas.
replace_check_areas(r) ==
    /\ rpc[r] = "check" /\ ~MmapLocked
    /\ rold' = [rold EXCEPT ![r] = None]
    /\ IF Maps(vmas[parent], rold[r]) > 0
       THEN rpc' = [rpc EXCEPT ![r] = "idle"] /\ rnew' = [rnew EXCEPT ![r] = None]
            /\ fcount' = fput(fput(fcount, rold[r]), rnew[r])
       ELSE rpc' = [rpc EXCEPT ![r] = "deny"] /\ UNCHANGED rnew /\ fcount' = fput(fcount, rold[r])
    /\ UNCHANGED <<mmst, vmas, total_vm, exe_file, fds, writecount, writable, countVars, forkVars, otherVars>>

replace_deny(r) ==
    /\ rpc[r] = "deny"
    /\ IF Denied(rnew[r])
       THEN deny_write_access(rnew[r]) /\ fcount' = get_file(fcount, rnew[r])
            /\ rpc' = [rpc EXCEPT ![r] = "xchg"] /\ UNCHANGED rnew
       ELSE fcount' = fput(fcount, rnew[r]) /\ UNCHANGED writecount
            /\ rpc' = [rpc EXCEPT ![r] = "idle"] /\ rnew' = [rnew EXCEPT ![r] = None]
    /\ UNCHANGED <<mmst, vmas, total_vm, exe_file, fds, writable, countVars, forkVars, rold, otherVars>>

\* The pointer is exchanged without a lock, and the caller's own reference goes with its descriptor.
replace_xchg(r) ==
    /\ rpc[r] = "xchg"
    /\ exe_file' = [exe_file EXCEPT ![parent] = rnew[r]]
    /\ rold' = [rold EXCEPT ![r] = exe_file[parent]] /\ rnew' = [rnew EXCEPT ![r] = None]
    /\ fcount' = fput(fcount, rnew[r])
    /\ rpc' = [rpc EXCEPT ![r] = "allow"]
    /\ UNCHANGED <<mmst, vmas, total_vm, fds, writecount, writable, countVars, forkVars, otherVars>>

\* The old file is released under the mmap_lock, so that it stays denied while dup_mmap() copies it.
replace_allow(r) ==
    /\ rpc[r] = "allow" /\ ~MmapLocked
    /\ writecount' = allow_write_access(writecount, rold[r]) /\ fcount' = fput(fcount, rold[r])
    /\ rold' = [rold EXCEPT ![r] = None] /\ rpc' = [rpc EXCEPT ![r] = "idle"]
    /\ UNCHANGED <<mmst, vmas, total_vm, exe_file, fds, writable, countVars, forkVars, rnew, otherVars>>

mmap(a) ==
    /\ "map" \in scenario.uses /\ ~MmapLocked /\ Len(vmas[parent]) < scenario.max
    /\ a.file # None => a.file \in fds
    /\ vmas' = [vmas EXCEPT ![parent] = Append(@, a)] /\ total_vm' = [total_vm EXCEPT ![parent] = @ + 1]
    /\ fcount' = get_file(fcount, a.file)
    /\ writable' = IF a.file # None /\ a.shared THEN [writable EXCEPT ![a.file] = @ + 1] ELSE writable
    /\ committed' = IF a.account THEN committed + 1 ELSE committed
    /\ areas' = areas + 1 /\ policies' = policies + 1
    /\ UNCHANGED <<mmst, exe_file, fds, writecount, forkVars, replVars, otherVars>>

munmap(i) ==
    /\ "map" \in scenario.uses /\ ~MmapLocked /\ i \in DOMAIN vmas[parent]
    /\ LET a == vmas[parent][i] IN
       /\ vmas' = [vmas EXCEPT ![parent] = RemoveAt(@, i)] /\ total_vm' = [total_vm EXCEPT ![parent] = @ - 1]
       /\ fcount' = fput(fcount, a.file)
       /\ writable' = IF a.file # None /\ a.shared THEN [writable EXCEPT ![a.file] = @ - 1] ELSE writable
       /\ committed' = IF a.account THEN committed - 1 ELSE committed
    /\ areas' = areas - 1 /\ policies' = policies - 1
    /\ UNCHANGED <<mmst, exe_file, fds, writecount, forkVars, replVars, otherVars>>

close(f) ==
    /\ f \in fds /\ fds' = fds \ {f} /\ fcount' = fput(fcount, f)
    /\ UNCHANGED <<mmst, vmas, total_vm, exe_file, writecount, writable, countVars, forkVars, replVars, otherVars>>

\* get_write_access() fails while write access is denied.
open_write(f) ==
    /\ "write" \in scenario.uses /\ writer = None /\ writecount[f] >= 0
    /\ writer' = f /\ writecount' = [writecount EXCEPT ![f] = @ + 1]
    /\ UNCHANGED <<mmst, vmas, total_vm, exe_file, fcount, fds, writable, countVars, forkVars, replVars, peek, seen, bprm>>

close_write ==
    /\ writer # None
    /\ writer' = None /\ writecount' = [writecount EXCEPT ![writer] = @ - 1]
    /\ UNCHANGED <<mmst, vmas, total_vm, exe_file, fcount, fds, writable, countVars, forkVars, replVars, peek, seen, bprm>>

\* /proc/<pid>/exe of the process with mm m reads the pointer ...
get_task_exe_file(m) ==
    /\ "observe" \in scenario.uses /\ seen = None /\ peek = None /\ mmst[m] = "live" /\ exe_file[m] # None
    /\ peek' = [mm |-> m, file |-> exe_file[m]]
    /\ UNCHANGED <<mmst, vmas, total_vm, exe_file, fcount, fds, writecount, writable, countVars, forkVars, replVars, writer, seen, bprm>>

\* Bug: get_file() for get_file_rcu(), a file that is gone comes back.
get_file_unconditionally ==
    /\ peek # None
    /\ seen' = peek.file /\ fcount' = get_file(fcount, peek.file)
    /\ peek' = None
    /\ UNCHANGED <<mmst, vmas, total_vm, exe_file, fds, writecount, writable, countVars, forkVars, replVars, writer, bprm>>

\* ... takes its reference unless the file is gone ...
get_file_rcu ==
    /\ peek # None
    /\ IF fcount[peek.file] = 0 THEN UNCHANGED <<fcount, seen>>
       ELSE seen' = peek.file /\ fcount' = get_file(fcount, peek.file)
    /\ peek' = None
    /\ UNCHANGED <<mmst, vmas, total_vm, exe_file, fds, writecount, writable, countVars, forkVars, replVars, writer, bprm>>

\* ... and drops it with fput().
put_seen ==
    /\ seen # None /\ seen' = None /\ fcount' = fput(fcount, seen)
    /\ UNCHANGED <<mmst, vmas, total_vm, exe_file, fds, writecount, writable, countVars, forkVars, replVars, writer, peek, bprm>>

-----------------------------------------------------------------------------
Fork ==
    \/ dup_mm \/ get_mm_exe_file_deref \/ get_mm_exe_file \/ dup_mm_exe_file
    \/ \E b \in BOOLEAN :
         \/ mmap_write_lock(b) \/ dup_mmap_charge(b) \/ vm_area_dup(b) \/ vma_dup_policy(b)
         \/ dup_anon_vma(b) \/ dup_mmap_link(b) \/ dup_mmap_out(b)

Replace ==
    \E r \in Replacers :
      \/ \E f \in Files : replace_mm_exe_file(r, f)
      \/ replace_get(r) \/ replace_check_areas(r) \/ replace_deny(r) \/ replace_xchg(r) \/ replace_allow(r)

Others ==
    \/ \E m \in Mms : __mmput(m) \/ get_task_exe_file(m)
    \/ \E f \in Files : do_open_execat(f) \/ close(f) \/ open_write(f)
    \/ \E a \in scenario.areas : mmap(a)
    \/ \E i \in 1..scenario.max : munmap(i)
    \/ begin_new_exec \/ free_bprm \/ close_write \/ get_file_rcu \/ put_seen

Next == (Fork \/ Replace \/ Others) /\ UNCHANGED scenario

Spec == Init /\ [][Next]_vars

-----------------------------------------------------------------------------
TypeOK ==
    /\ mmst \in [Mms -> {"none", "building", "live", "failed"}]
    /\ \A m \in Mms : Len(vmas[m]) <= scenario.max /\ Range(vmas[m]) \subseteq scenario.areas
    /\ total_vm \in [Mms -> 0..scenario.max] /\ exe_file \in [Mms -> Files \cup {None}]
    /\ fcount \in [Files -> Nat] /\ fds \subseteq Files /\ writecount \in [Files -> Int]
    /\ writable \in [Files -> Nat] /\ {committed, areas, policies} \subseteq Nat
    /\ pc \in {"idle", "start", "deref", "get", "deny", "vma", "area", "policy", "anon", "link"}
    /\ next \in 1..(scenario.max + 1) /\ held \subseteq {"charge", "area", "policy"} /\ got \in Files \cup {None}
    /\ rpc \in [Replacers -> {"idle", "get", "check", "deny", "xchg", "allow"}]
    /\ rnew \in [Replacers -> Files \cup {None}] /\ rold \in [Replacers -> Files \cup {None}]
    /\ {writer, seen, bprm} \subseteq Files \cup {None} /\ peek \in {None} \cup [mm : Mms, file : Files]

One(b) == IF b THEN 1 ELSE 0
MmsWith(f) == Cardinality({m \in Mms : exe_file[m] = f})

\* A file has as many references as holders: descriptors, executables, areas, observers and the
\* calls in progress; so none is freed while an mm names it, and none is leaked by a failed fork.
FileRefsExact ==
    \A f \in Files :
      fcount[f] = One(f \in fds) + MmsWith(f) + Maps(vmas[parent], f) + Maps(vmas[child], f) + One(seen = f)
                  + One(bprm = f) + Cardinality({r \in Replacers : rold[r] = f /\ rpc[r] # "get"})
                  + Cardinality({r \in Replacers : rnew[r] = f}) + Cardinality({r \in Replacers : rnew[r] = f /\ rpc[r] = "xchg"})

\* Write access to a file is denied once for each mm that executes it (the child from its own denial
\* on), each replacement in progress and each exec().
DenialsExact ==
    \A f \in Files :
      writecount[f] = One(writer = f) - MmsWith(f) + One(pc = "deny" /\ got = f /\ exe_file[child] = f) - One(bprm = f)
                      - Cardinality({r \in Replacers : rnew[r] = f /\ rpc[r] = "xchg"})
                      - Cardinality({r \in Replacers : rold[r] = f /\ rpc[r] = "allow"})

\* The denials that the comments of dup_mm_exe_file() and set_mm_exe_file() call unlikely to fail
\* cannot fail: whoever is about to execute a file finds no writer.
DenialSucceeds ==
    /\ pc = "deny" /\ got # None => Denied(got)
    /\ bprm # None => Denied(bprm)

\* The copy of an mm has an executable file, whatever is replaced and closed meanwhile.
ChildHasExecutable == mmst[child] = "live" => exe_file[child] # None

\* Charged memory, areas, policies and shared mappings are what the areas and the copy in progress
\* account for, after any failure; and the totals of an mm that somebody can use are those of its areas.
MemoryExact ==
    LET total(P(_)) == CountAreas(vmas[parent], P) + CountAreas(vmas[child], P) IN
    /\ committed = total(LAMBDA a : a.account) + One("charge" \in held)
    /\ areas = total(LAMBDA a : TRUE) + One("area" \in held)
    /\ policies = total(LAMBDA a : TRUE) + One("policy" \in held)
    /\ \A f \in Files : writable[f] = total(LAMBDA a : a.file = f /\ a.shared)
    /\ \A m \in Mms : mmst[m] = "live" => total_vm[m] = Len(vmas[m])

\* The executable of every mm is held and protected from writers for as long as the mm names it,
\* whatever is copied, replaced, executed and closed at the same time.
ExecutableSafe == FileRefsExact /\ DenialsExact /\ DenialSucceeds /\ ChildHasExecutable

\* A file that is gone is never taken again: whoever has read a pointer to it without a lock (in a
\* fork, through /proc or to replace it) finds out before it takes its reference.
GoneFilesStay == [][\A f \in Files : fcount[f] = 0 => fcount'[f] = 0]_vars
=============================================================================
