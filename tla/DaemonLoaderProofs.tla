------------------------- MODULE DaemonLoaderProofs -------------------------
(***************************************************************************)
(* Proofs, for any number of programs and processes and any pattern of     *)
(* failures, of the safety properties of main's save, fork, kill and load. *)
(***************************************************************************)
EXTENDS DaemonLoader, TLAPS

(* child_pid and the pid just forked name processes, and different ones.   *)
Places ==
    /\ child_pid \in Pids => proc[child_pid] # "free"
    /\ pc = "kill" => proc[pid] # "free" /\ pid # child_pid

(* While no fork has failed, the only children alive are the remembered    *)
(* one and, until the kill, the new one.                                   *)
Children ==
    "fork" \notin faults =>
        \A p \in Pids : Alive(p) => p = child_pid \/ (pc = "kill" /\ p = pid)

(* From the fork to the next open, the newest child has loaded the file.   *)
Loads ==
    /\ pc = "kill" /\ proc[pid] = "polling" => loaded[pid] = file
    /\ CurrentRunsFile

(* While no save and no fork has failed, the file holds the program        *)
(* received last from the end of the save to the next message.             *)
Saved == faults \subseteq {"load"} /\ pc \in {"recv", "fork", "kill"} => file = prog

LInv == TypeOK /\ Places /\ Children /\ Loads /\ Saved

(* The invariant holds when the daemon starts.                             *)
LEMMA LInvInit == Init => LInv
BY LoaderAssumption DEF Init, LInv, TypeOK, Places, Children, Loads, Saved, Alive, CurrentRunsFile

(* A message has been received.                                            *)
LEMMA LInvRecv == LInv /\ recv_bytecode => LInv'
BY LoaderAssumption DEF recv_bytecode, LInv, TypeOK, Places, Children, Loads, Saved, Alive, CurrentRunsFile

(* Saving touches the file only, while no property speaks of it.           *)
LEMMA LInvSave ==
    ASSUME LInv, save_open \/ save_write
    PROVE  LInv'
<1> USE DEF LInv
<1>1. /\ UNCHANGED <<prog, child_pid, pid, proc, loaded>>
      /\ pc \in {"open", "write"} /\ pc' \in {"write", "fork"}
      /\ file' \in {0, prog, file}
      /\ faults' \in {faults, faults \cup {"save"}}
      /\ faults' \subseteq {"load"} => faults \subseteq {"load"}
      /\ faults' \subseteq {"load"} /\ pc' = "fork" => file' = prog
  BY DEF save_open, save_write
<1>2. TypeOK'
  BY <1>1, LoaderAssumption DEF TypeOK
<1>3. Places' /\ Loads' /\ Saved'
  BY <1>1 DEF Places, Loads, Saved, CurrentRunsFile
<1>4. Children'
  BY <1>1 DEF Children, Alive
<1> QED BY <1>2, <1>3, <1>4

(* The new child is a process that was free, hence not the remembered one. *)
LEMMA LInvFork ==
    ASSUME LInv, NEW p \in Pids, fork_ok(p)
    PROVE  LInv'
<1> USE DEF LInv, fork_ok
<1>1. TypeOK'
  BY DEF TypeOK
<1>2. proc'[p] = "new" /\ \A r \in Pids \ {p} : proc'[r] = proc[r]
  BY DEF TypeOK
<1>3. Places' /\ Loads' /\ Saved'
  BY <1>2 DEF TypeOK, Places, Loads, Saved, CurrentRunsFile
<1>4. Children'
  BY <1>2 DEF TypeOK, Children, Alive
<1> QED BY <1>1, <1>3, <1>4

(* A failed fork is recorded and forgets the child.                        *)
LEMMA LInvForkError == LInv /\ fork_error => LInv'
BY LoaderAssumption
   DEF fork_error, LInv, TypeOK, Places, Children, Loads, Saved, Alive, CurrentRunsFile

(* After the kill only the new child is alive, and it is remembered.       *)
LEMMA LInvKill ==
    ASSUME LInv, kill
    PROVE  LInv'
<1> USE DEF LInv, kill
<1>1. TypeOK'
  BY DEF TypeOK
<1>2. /\ \A r \in Pids : r # child_pid => proc'[r] = proc[r]
      /\ child_pid \in Pids => proc'[child_pid] = "zombie"
  BY DEF TypeOK
<1>3. pid \in Pids /\ pid # child_pid /\ child_pid' = pid
  BY DEF TypeOK, Places
<1>4. Places' /\ Loads' /\ Saved'
  BY <1>2, <1>3 DEF TypeOK, Places, Loads, Saved, CurrentRunsFile
<1>5. Children'
  BY <1>2, <1>3 DEF TypeOK, Children, Alive
<1> QED BY <1>1, <1>4, <1>5

(* A child loads what the file holds now.                                  *)
LEMMA LInvLoad ==
    ASSUME LInv, NEW p \in Pids, load_bpf_file(p)
    PROVE  LInv'
<1> USE DEF LInv, load_bpf_file
<1>1. TypeOK'
  BY DEF TypeOK
<1>2. /\ proc'[p] \in {"polling", "zombie"}
      /\ proc'[p] = "polling" => loaded'[p] = file
      /\ \A r \in Pids \ {p} : proc'[r] = proc[r] /\ loaded'[r] = loaded[r]
  BY DEF TypeOK
<1>3. Places' /\ Saved'
  BY <1>2 DEF TypeOK, Places, Saved
<1>4. Loads'
  BY <1>2 DEF TypeOK, Loads, CurrentRunsFile
<1>5. Children'
  BY <1>2 DEF TypeOK, Children, Alive
<1> QED BY <1>1, <1>3, <1>4, <1>5

(* Process table, remembered child and file agree in every reachable       *)
(* state.                                                                  *)
THEOREM LInvariant == Spec => []LInv
<1>1. LInv /\ [Next]_vars => LInv'
  <2> SUFFICES ASSUME LInv, [Next]_vars
               PROVE  LInv'
    OBVIOUS
  <2>1. CASE recv_bytecode
    BY <2>1, LInvRecv
  <2>2. CASE save_open \/ save_write
    BY <2>2, LInvSave
  <2>3. ASSUME NEW p \in Pids, fork_ok(p)
        PROVE  LInv'
    BY <2>3, LInvFork
  <2>4. CASE fork_error
    BY <2>4, LInvForkError
  <2>5. CASE kill
    BY <2>5, LInvKill
  <2>6. ASSUME NEW p \in Pids, load_bpf_file(p)
        PROVE  LInv'
    BY <2>6, LInvLoad
  <2>7. CASE UNCHANGED vars
    BY <2>7 DEF vars, LInv, TypeOK, Places, Children, Loads, Saved, Alive, CurrentRunsFile
  <2> QED BY <2>1, <2>2, <2>3, <2>4, <2>5, <2>6, <2>7, Zenon DEF Next, Parent
<1> QED BY LInvInit, <1>1, PTL DEF Spec

(* Every variable of the daemon keeps its type.                            *)
THEOREM LoaderTypeCorrect == Spec => []TypeOK
BY LInvariant, PTL DEF LInv

(* Until a fork fails, at most the current child is alive between          *)
(* messages: the previous one has been killed.                             *)
THEOREM OneChildCorrect == Spec => []OneChild
<1>1. LInv => OneChild
  BY DEF LInv, Children, OneChild
<1> QED BY <1>1, LInvariant, PTL

(* Until a save or a fork fails, what polls between messages is the        *)
(* program received last, whatever children failed to load.                *)
THEOREM RunsLatestCorrect == Spec => []RunsLatest
<1>1. LInv => RunsLatest
  BY LoaderAssumption DEF LInv, TypeOK, Children, Loads, Saved, RunsLatest, CurrentRunsFile, Alive
<1> QED BY <1>1, LInvariant, PTL

(* Whatever fails, the remembered child runs what the file holds.          *)
THEOREM CurrentCorrect == Spec => []CurrentRunsFile
BY LInvariant, PTL DEF LInv, Loads

=============================================================================
