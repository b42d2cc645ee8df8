----------------------------- MODULE AtomicLoad -----------------------------
(***************************************************************************)
(* What bpf_object__load() promises to the users of a BPF file system: a   *)
(* process that loads an object may put maps of its own at free paths; a   *)
(* load that fails takes back all it put there, and frees no other path.   *)
(* Once its load has ended a process may be told to pin more at free paths *)
(* and to remove pins, whosever they are.                                  *)
(***************************************************************************)
CONSTANTS
    Procs,              \* processes, each loading an object
    Paths,              \* paths in the BPF file system
    Nobody              \* owner of a free path

VARIABLES
    status,             \* what became of the load of each process
    mine,               \* mine[p]: paths where p has put maps during its load
    owner               \* owner[path]: the process that pinned what is there

avars == <<status, mine, owner>>

AtomicInit ==
    /\ status = [p \in Procs |-> "opened"]
    /\ mine = [p \in Procs |-> {}]
    /\ owner = [path \in Paths |-> Nobody]

Put(p, path) ==
    /\ owner[path] = Nobody /\ status[p] # "failed"
    /\ owner' = [owner EXCEPT ![path] = p]
    /\ mine' = IF status[p] = "opened" THEN [mine EXCEPT ![p] = @ \cup {path}] ELSE mine
    /\ UNCHANGED status

TakeBack(p, path) ==
    /\ status[p] = "opened" /\ path \in mine[p]
    /\ owner' = [owner EXCEPT ![path] = Nobody]
    /\ mine' = [mine EXCEPT ![p] = @ \ {path}]
    /\ UNCHANGED status

\* On behalf of the application, and only once the load has ended.
Remove(p, path) ==
    /\ status[p] # "opened" /\ owner[path] # Nobody
    /\ owner' = [owner EXCEPT ![path] = Nobody]
    /\ UNCHANGED <<status, mine>>

End(p, s) ==
    /\ status[p] = "opened"
    /\ status' = [status EXCEPT ![p] = s]
    /\ mine' = [mine EXCEPT ![p] = {}]
    /\ UNCHANGED owner

Complete(p) == End(p, "loaded")

Abandon(p) == (\A path \in Paths : owner[path] # p) /\ End(p, "failed")

AtomicNext ==
    \E p \in Procs :
      \/ \E path \in Paths : Put(p, path) \/ TakeBack(p, path) \/ Remove(p, path)
      \/ Complete(p) \/ Abandon(p)

AtomicSpec == AtomicInit /\ [][AtomicNext]_avars

=============================================================================
