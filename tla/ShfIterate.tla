----------------------------- MODULE ShfIterate -----------------------------
(***************************************************************************)
(* shf_tab_copy_iterate: a process copies the tables of a window one call  *)
(* at a time, in the order of their numbers, while others put, delete,     *)
(* split and shrink between its calls.  win and tab are the caller's.      *)
(***************************************************************************)
EXTENDS ShfTable

CONSTANT Iterators      \* the processes that do so

ASSUME IteratorsAssumption == Iterators \subseteq Procs

VARIABLE walk           \* walk[p]: the table p copies next; and, as history, due: the
                        \* UIDs in use since p's pass began that it has not come across

wvars == <<vars, walk>>

Stored == {u \in Uids : StoredAt(u) # NoRec}

(* Mutant of NextTab: the last table is taken for the end. *)
NextTabButLast(t) == IF t + 1 >= m.tabs_used - 1 THEN 0 ELSE t + 1

(* After the last table of the window comes the first one of the next, here *)
(* of the same, window.                                                     *)
NextTab(t) == IF t + 1 >= m.tabs_used THEN 0 ELSE t + 1

TabCopyIterate(p) ==
  LET t == walk[p].tab
      g == GetTab(m, p, t)
      f == File(g, p, t)
      copied == {<<f.row[s].tab, s>> : s \in {r \in Slots : f.row[r].pos # 0}}
  IN  /\ Free(p)
      /\ m' = g
      /\ walk' = [walk EXCEPT ![p] = [tab |-> NextTab(t),
                                      due |-> (IF t = 0 THEN Stored ELSE walk[p].due) \ copied]]
      /\ UNCHANGED <<pend, stuck>>

WalkInit == Init /\ walk = [p \in Iterators |-> [tab |-> 0, due |-> {}]]

WalkNext ==
  \/ \E p \in Iterators : TabCopyIterate(p)
  \/ Next /\ walk' = [p \in Iterators |-> [walk[p] EXCEPT !.due = @ \cap Stored']]

WalkSpec == WalkInit /\ [][WalkNext]_wvars

-----------------------------------------------------------------------------
(* A pass comes across every record that is there from its beginning to    *)
(* its end: one that a split takes to another table while the pass is half *)
(* way through goes to a table the pass still has before it.               *)
PassMissesNothing == \A p \in Iterators : walk[p].tab = 0 => walk[p].due = {}
=============================================================================
