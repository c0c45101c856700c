------------------------------- MODULE Notices -------------------------------
(***************************************************************************)
(* The notices of one user: a capped list in Redis with the newest first,  *)
(* the set of those the user has dismissed, the set of the runs that were  *)
(* told. notify_run_once is two steps, as its two writes are: a run joins  *)
(* the set, then its notice is pushed. Each can fail by itself.            *)
(***************************************************************************)
EXTENDS Integers, Sequences, FiniteSets, SequencesExt

CONSTANTS
  MAX_EVENTS,  \* of the list
  MaxNotices   \* bound: notices that are issued

ASSUME NoticesAssumption == MAX_EVENTS \in Nat \ {0}

VARIABLES
  inbox,      \* user:{}:events, as records [id, of, type]
  dismissed,  \* user:{}:events:dismissed
  told,       \* user:{}:events:notified
  issued      \* how many notices were made: the ids are 1, 2, ...

noticeVars == <<inbox, dismissed, told, issued>>

Notice(of, type) == [id |-> issued + 1, of |-> of, type |-> type]

NoticesInit == inbox = <<>> /\ dismissed = {} /\ told = {} /\ issued = 0

\* lpush and ltrim.
emit(notice) ==
  /\ inbox' = SubSeq(<<notice>> \o inbox, 1, IF Len(inbox) < MAX_EVENTS THEN Len(inbox) + 1 ELSE MAX_EVENTS)
  /\ issued' = notice.id
  /\ UNCHANGED <<dismissed, told>>

\* The notice is lost: the write fails, which is ignored.
emit_fails(notice) == issued' = notice.id /\ UNCHANGED <<inbox, dismissed, told>>

\* The first write of notify_run_once; whether the notice is to be sent.
notify_run_once(of) == told' = told \cup {of} /\ UNCHANGED <<inbox, dismissed, issued>>
MaySend(of) == of \notin told

\* What recent(limit) returns: of the first 3 * limit those that are not
\* dismissed, until there are limit of them.
recent(limit) ==
  LET raw == SubSeq(inbox, 1, IF 3 * limit < Len(inbox) THEN 3 * limit ELSE Len(inbox))
  IN FoldLeft(LAMBDA out, ev : IF ev.id \in dismissed \/ Len(out) >= limit THEN out ELSE Append(out, ev),
              <<>>, raw)

\* Of any id that was ever shown, whether the list still has it or not.
dismiss(id) ==
  /\ id \in 1..issued /\ id \notin dismissed
  /\ dismissed' = dismissed \cup {id}
  /\ UNCHANGED <<inbox, told, issued>>

NoticesNext == \E id \in 1..MaxNotices : dismiss(id)

\* By notify_service's own account the page shows the newest notices that the
\* user has not dismissed, the newest first. It does as long as no more than
\* 2 * limit of those that were read are dismissed: then the three times as many
\* that recent reads are enough, and none is shown twice or out of order.
RecentIsNewest(limit) ==
  LET open == {i \in DOMAIN inbox : inbox[i].id \notin dismissed}
      hidden == {i \in DOMAIN inbox : i <= 3 * limit /\ inbox[i].id \in dismissed}
      shown == recent(limit)
  IN Cardinality(hidden) <= 2 * limit =>
       /\ ToSet(shown) = {inbox[i] : i \in {j \in open : Cardinality({k \in open : k < j}) < limit}}
       /\ \A i, j \in DOMAIN shown : i < j => shown[i].id > shown[j].id
=============================================================================
