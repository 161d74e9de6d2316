---------------------------- MODULE DaemonLoader ----------------------------
(***************************************************************************)
(* What main of guestend/daemon.c does with a received program: save it to *)
(* /tmp/bytecode, fork a child that loads the file and polls its map for   *)
(* ever, and kill the previous child.  Parent and children share only the  *)
(* file.  The parent never waits for a child, so a child that has ended    *)
(* stays in the process table.                                             *)
(***************************************************************************)
EXTENDS Naturals, FiniteSets

CONSTANTS
    Pids,       \* process table entries available to children
    NoPid,      \* child_pid = -1
    MaxProgs,   \* bound: programs injected, numbered 1 .. MaxProgs
    SaveFails,  \* whether fopen or fwrite may fail (full or unwritable /tmp)
    ForkFails,  \* whether fork may fail with room in the process table (no memory)
    LoadFails   \* whether load_bpf_file may fail on a whole file (no ELF file, a
                \* program the verifier refuses, a kprobe that cannot be set)

ASSUME LoaderAssumption ==
    /\ IsFiniteSet(Pids) /\ NoPid \notin Pids
    /\ MaxProgs \in Nat
    /\ SaveFails \in BOOLEAN /\ ForkFails \in BOOLEAN /\ LoadFails \in BOOLEAN

VARIABLES
    pc,         \* parent: "recv", "open", "write", "fork", "kill"
    prog,       \* number of the program received last (0: none)
    file,       \* what /tmp/bytecode holds: a program, or 0 if no whole one
    child_pid,  \* as in main
    pid,        \* the result of fork
    proc,       \* per pid: "free", "new", "polling", "zombie"
    loaded,     \* per pid: the program the child has loaded
    faults      \* history: the calls that have failed so far

vars == <<pc, prog, file, child_pid, pid, proc, loaded, faults>>

TypeOK ==
    /\ pc \in {"recv", "open", "write", "fork", "kill"}
    /\ prog \in 0 .. MaxProgs
    /\ file \in 0 .. MaxProgs
    /\ child_pid \in Pids \cup {NoPid}
    /\ pid \in Pids \cup {NoPid}
    /\ pc = "kill" => pid \in Pids
    /\ proc \in [Pids -> {"free", "new", "polling", "zombie"}]
    /\ loaded \in [Pids -> 0 .. MaxProgs]
    /\ faults \subseteq {"save", "fork", "load"}

Init ==
    /\ pc = "recv"
    /\ prog = 0
    /\ file = 0
    /\ child_pid = NoPid
    /\ pid = NoPid
    /\ proc = [p \in Pids |-> "free"]
    /\ loaded = [p \in Pids |-> 0]
    /\ faults = {}

-----------------------------------------------------------------------------
(* recv_bytecode returns a PROGRAM_INJECTION message; any other type is    *)
(* only reported.                                                          *)
recv_bytecode ==
    /\ pc = "recv" /\ prog < MaxProgs
    /\ prog' = prog + 1
    /\ pc' = "open"
    /\ UNCHANGED <<file, child_pid, pid, proc, loaded, faults>>

(* Faulty variant: a file that exists is not written again.                *)
save_open_Once ==
    /\ pc = "open"
    /\ pc' = IF file = 0 THEN "write" ELSE "fork"
    /\ UNCHANGED <<prog, file, child_pid, pid, proc, loaded, faults>>

(* save_bytecode: fopen(path, "w") truncates the file; main ignores the    *)
(* result of a failed save and goes on to fork.                            *)
save_open ==
    /\ pc = "open"
    /\ \/ file' = 0 /\ pc' = "write" /\ UNCHANGED faults
       \/ SaveFails /\ pc' = "fork" /\ faults' = faults \cup {"save"} /\ UNCHANGED file
    /\ UNCHANGED <<prog, child_pid, pid, proc, loaded>>

(* Faulty variant: the data is still buffered when the child is forked.    *)
save_write_Buffered ==
    /\ pc = "write"
    /\ pc' = "fork"
    /\ UNCHANGED <<prog, file, child_pid, pid, proc, loaded, faults>>

save_write ==
    /\ pc = "write"
    /\ \/ file' = prog /\ UNCHANGED faults
       \/ SaveFails /\ faults' = faults \cup {"save"} /\ UNCHANGED file
    /\ pc' = "fork"
    /\ UNCHANGED <<prog, child_pid, pid, proc, loaded>>

(* fork: the child starts; or there is no room for it, and the pid of the  *)
(* previous child is forgotten.                                            *)
fork_ok(p) ==
    /\ pc = "fork" /\ proc[p] = "free"
    /\ proc' = [proc EXCEPT ![p] = "new"]
    /\ pid' = p
    /\ pc' = "kill"
    /\ UNCHANGED <<prog, file, child_pid, loaded, faults>>

(* Faulty variants: the failure is taken for a parent's return; the old    *)
(* child is still taken for the current one.                               *)
fork_error_Unchecked ==
    /\ pc = "fork"
    /\ ForkFails \/ \A p \in Pids : proc[p] # "free"
    /\ faults' = faults \cup {"fork"}
    /\ pid' = NoPid
    /\ pc' = "kill"
    /\ UNCHANGED <<prog, file, child_pid, proc, loaded>>

fork_error_KeepsChild ==
    /\ pc = "fork"
    /\ ForkFails \/ \A p \in Pids : proc[p] # "free"
    /\ faults' = faults \cup {"fork"}
    /\ pid' = NoPid
    /\ pc' = "recv"
    /\ UNCHANGED <<prog, file, child_pid, proc, loaded>>

fork_error ==
    /\ pc = "fork"
    /\ ForkFails \/ \A p \in Pids : proc[p] # "free"
    /\ faults' = faults \cup {"fork"}
    /\ pid' = NoPid
    /\ child_pid' = NoPid
    /\ pc' = "recv"
    /\ UNCHANGED <<prog, file, proc, loaded>>

(* Faulty variant: the previous child is left running.                     *)
kill_Nobody ==
    /\ pc = "kill"
    /\ child_pid' = pid
    /\ pc' = "recv"
    /\ UNCHANGED <<prog, file, pid, proc, loaded, faults>>

(* The parent kills the previous child, if it remembers one.               *)
kill ==
    /\ pc = "kill"
    /\ proc' = [p \in Pids |-> IF p = child_pid THEN "zombie" ELSE proc[p]]
    /\ child_pid' = pid
    /\ pc' = "recv"
    /\ UNCHANGED <<prog, file, pid, loaded, faults>>

(* load_bpf_file in the child: it polls from now on; or there is an error, *)
(* always for a file that is no whole program, and the child returns from  *)
(* main, by when the parent may have killed its predecessor.               *)
load_bpf_file(p) ==
    /\ proc[p] = "new"
    /\ \/ /\ file # 0
          /\ proc' = [proc EXCEPT ![p] = "polling"]
          /\ loaded' = [loaded EXCEPT ![p] = file]
          /\ UNCHANGED faults
       \/ /\ file = 0 \/ LoadFails
          /\ proc' = [proc EXCEPT ![p] = "zombie"]
          /\ faults' = IF file = 0 THEN faults ELSE faults \cup {"load"}
          /\ UNCHANGED loaded
    /\ UNCHANGED <<pc, prog, file, child_pid, pid>>

Parent == recv_bytecode \/ save_open \/ save_write \/ (\E p \in Pids : fork_ok(p)) \/ fork_error \/ kill

Next == Parent \/ \E p \in Pids : load_bpf_file(p)

(* The parent finishes what it starts (more messages may never come) and   *)
(* every child is scheduled.                                               *)
Spec ==
    /\ Init /\ [][Next]_vars
    /\ WF_vars(Parent /\ pc # "recv")
    /\ \A p \in Pids : WF_vars(load_bpf_file(p))

-----------------------------------------------------------------------------
(* Properties.                                                             *)

Alive(p) == proc[p] \in {"new", "polling"}

(* daemon.c:210 "load the newly received bytecode every time, so the       *)
(* previous child has to be killed": as long as no fork has failed, when   *)
(* the parent waits for a message no child but the current one is alive.   *)
OneChild == pc = "recv" /\ "fork" \notin faults => \A p \in Pids : Alive(p) => p = child_pid

(* daemon.c:210: as long as no save and no fork has failed, when the       *)
(* parent waits for a message a child that polls has loaded the program    *)
(* received last; whatever children failed to load, none runs on with an   *)
(* older one.                                                              *)
RunsLatest ==
    pc = "recv" /\ faults \subseteq {"load"} => \A p \in Pids : proc[p] = "polling" => loaded[p] = prog

(* Whatever fails and whenever: the child the parent remembers, once it    *)
(* polls, has loaded what /tmp/bytecode holds, never an older program      *)
(* (kill, fork and save in main).                                          *)
CurrentRunsFile ==
    pc = "recv" /\ child_pid # NoPid /\ proc[child_pid] = "polling"
        => loaded[child_pid] = file

(* The program received last is eventually running, unless another follows *)
(* or a save, a fork or a load fails (the previous child is then killed    *)
(* all the same, daemon.c:229).                                            *)
LatestRuns ==
    \A n \in 1 .. MaxProgs :
        (prog = n) ~> \/ prog > n
                      \/ faults # {}
                      \/ \E p \in Pids : proc[p] = "polling" /\ loaded[p] = n

=============================================================================
