------------------------------ MODULE MCMemory ------------------------------
(***************************************************************************)
(* Instances of MmLifetime and of DupMmap for TLC.  The two share no       *)
(* state: a behaviour is one of MmLifetime or one of DupMmap, and the      *)
(* other module stays in its initial state.                                *)
(***************************************************************************)
EXTENDS MmLifetime, Sequences

CONSTANTS c1, c2, i1, i2, \* the CPUs and their idle tasks, for MmLifetime
          Files, Replacers, parent, child, fresh, FirstFile, f1, f2 \* for DupMmap

VARIABLES scenario, dup_mmst, vmas, total_vm, exe_file, fcount, fds, writecount, writable, committed,
          areas, policies, pc, next, held, got, rpc, rnew, rold, writer, peek, seen, bprm

dupVars == <<scenario, dup_mmst, vmas, total_vm, exe_file, fcount, fds, writecount, writable, committed,
             areas, policies, pc, next, held, got, rpc, rnew, rold, writer, peek, seen, bprm>>

IdleOf == [c \in CPUs |-> IF c = c1 THEN i1 ELSE i2]

\* An observer and the OOM killer during exec(); kernel threads that adopt an mm; vfork(); and threads
\* with a clear_child_tid word, dumped or not.
MmScenarios == {{}, {"exec", "observer", "oom"}, {"exec", "use_mm"}, {"vfork"}, {"set", "coredump"}}

Area(file, account, shared, dontcopy, wipe) ==
    [file |-> file, account |-> account, shared |-> shared, dontcopy |-> dontcopy, wipe |-> wipe]

\* Private memory, a shared file, the executable, an area that is not copied, one that the child gets empty.
Heap == Area(None, TRUE, FALSE, FALSE, FALSE)
SharedFile == Area(f2, FALSE, TRUE, FALSE, FALSE)
Text == Area(f1, FALSE, FALSE, FALSE, FALSE)
Device == Area(None, FALSE, FALSE, TRUE, FALSE)
Wiped == Area(None, TRUE, FALSE, FALSE, TRUE)

Nothing == [areas |-> {}, first |-> <<>>, max |-> 0, uses |-> {}]

\* All kinds of areas, copied; the executable, replaced by two threads while somebody wants to write
\* to it, and while somebody reads it; the executable, read and executed by others.
DupScenarios ==
    {Nothing,
     [areas |-> {Heap, SharedFile, Device, Wiped}, first |-> <<Heap, SharedFile>>, max |-> 3, uses |-> {"map"}],
     [areas |-> {Text}, first |-> <<Text>>, max |-> 1, uses |-> {"map", "replace", "write"}],
     [areas |-> {Text}, first |-> <<Text>>, max |-> 1, uses |-> {"map", "replace", "observe"}],
     [areas |-> {Text}, first |-> <<Text>>, max |-> 1, uses |-> {"observe", "write", "exec"}]}

D == INSTANCE DupMmap WITH Scenarios <- DupScenarios, mmst <- dup_mmst

ASSUME D!FileAssumption /\ D!AreaAssumption

MCInit == Init /\ D!Init /\ (uses = {} \/ scenario = Nothing)
MCNext == \/ scenario = Nothing /\ D!Init /\ Next /\ UNCHANGED dupVars
          \/ uses = {} /\ Init /\ D!Next /\ UNCHANGED vars
MCSpec == MCInit /\ [][MCNext]_<<vars, dupVars>>

\* What dup_mmap() charges and takes is what the areas account for: D!MemoryExact.
MemoryExact == D!MemoryExact

\* The executable of an mm is held and protected from writers: D!ExecutableSafe.
ExecutableSafe == D!ExecutableSafe

\* No reference to a file that is gone: D!GoneFilesStay.
GoneFilesStay == D!GoneFilesStay
=============================================================================
