---------------------------- MODULE ZkNymRequests ----------------------------
(* A fetch of ticketbooks (commands/zknym_handler): pending requests are     *)
(* resumed first, then new ones are sent, each by a task of its own that     *)
(* may fail, time out or be ended at any await.  What survives is the API's  *)
(* record of a request and two tables of the local storage: the pending      *)
(* requests and the ticketbooks.                                             *)
EXTENDS Naturals, FiniteSets

CONSTANTS
  ZkIds,          \* identifiers the API hands out
  ZkBatch,        \* ticket types that run low at once
  ZkFaults,       \* calls that may fail, tasks that may be ended
  ZkDbErrors      \* database errors an import can meet besides a duplicate

ASSUME ZkAssumption == IsFiniteSet(ZkIds) /\ ZkBatch \in Nat /\ ZkFaults \in Nat

VARIABLES zk
zkVars == <<zk>>

Workers == {id \in ZkIds : zk.work[id] \notin {"off", "done", "failed"}}
At(id, pc) == zk.work[id] = pc
Step(id, pc) == [zk EXCEPT !.work[id] = pc]
ZkFault(r) == zk.faults > 0 /\ zk' = [r EXCEPT !.faults = @ - 1]

(* The ids the API lists as available for download.                          *)
Available == {id \in ZkIds : zk.api[id] \in {"ready", "upgrade"}}

-----------------------------------------------------------------------------
Begun(stale, ids) ==
  [zk EXCEPT !.phase = "resume", !.pending = @ \ stale, !.stale = @ \cup stale,
             !.work = [id \in ZkIds |-> IF id \in ids THEN "poll" ELSE "off"]]

\* Faulty variant: nothing is ever resumed.
StartFetchAnew(stale) == zk.phase = "idle" /\ zk' = Begun(stale, {})

(* request_zk_nyms: stale requests are dropped, then what is both pending    *)
(* here and available there is resumed, or nothing when the API cannot say.  *)
StartFetch(stale) ==
  /\ zk.phase = "idle"
  /\ \/ zk' = Begun(stale, (zk.pending \ stale) \cap Available)
     \/ zk.pending \ stale # {} /\ ZkFault(Begun(stale, {}))

(* Then one new request for every type that was low when the fetch began.    *)
StartRequests(ids) ==
  /\ zk.phase = "resume" /\ Workers = {}
  /\ Cardinality(ids) <= ZkBatch /\ \A id \in ids : zk.api[id] = "none"
  /\ zk' = [zk EXCEPT !.phase = "request",
              !.work = [id \in ZkIds |-> IF id \in ids THEN "send" ELSE "off"]]

EndFetch ==
  /\ zk.phase = "request" /\ Workers = {}
  /\ zk' = [zk EXCEPT !.phase = "idle", !.work = [id \in ZkIds |-> "off"]]

(* wait_for_join_set gives up after five minutes without a result, which     *)
(* ends the tasks that are left.                                             *)
WaitTimesOut ==
  /\ Workers # {}
  /\ ZkFault([zk EXCEPT !.work = [id \in ZkIds |-> IF id \in Workers THEN "off" ELSE zk.work[id]]])

(* The controller aborts the fetch, or the daemon dies: the tables stay.     *)
AbortFetch ==
  /\ zk.phase # "idle"
  /\ ZkFault([zk EXCEPT !.phase = "idle", !.work = [id \in ZkIds |-> "off"]])

-----------------------------------------------------------------------------
(* One request.  A call that fails ends its task; the request may have       *)
(* reached the API all the same.                                             *)

SendRequest(id) ==
  /\ At(id, "send")
  /\ \/ zk' = [Step(id, "insert") EXCEPT !.api[id] = "pending"]
     \/ ZkFault([Step(id, "failed") EXCEPT !.api[id] = "pending"])

InsertPending(id) ==
  /\ At(id, "insert")
  /\ \/ zk' = [Step(id, "poll") EXCEPT !.pending = @ \cup {id}]
     \/ ZkFault(Step(id, "failed"))

Poll(id) ==
  /\ At(id, "poll")
  /\ \/ zk.api[id] \in {"ready", "upgrade"} /\ zk' = Step(id, "import")
     \/ zk.api[id] = "error" /\ zk' = Step(id, "failed")
     \/ ZkFault(Step(id, "failed"))

\* Faulty variant: a failed import is confirmed all the same.
ImportTolerates(id) ==
  /\ At(id, "import") /\ zk.api[id] = "ready"
  /\ \/ zk' = [Step(id, "confirm") EXCEPT !.books[id] = 1]
     \/ ZkFault(Step(id, "confirm"))

(* import_zk_nym: a ticketbook that is already there is not an error, and    *)
(* neither is any other error the database itself reports.                   *)
Import(id) ==
  /\ At(id, "import") /\ zk.api[id] = "ready"
  /\ \/ zk' = [Step(id, "confirm") EXCEPT !.books[id] = IF @ = 0 THEN 1 ELSE @]
     \/ ZkDbErrors # {} /\ ZkFault(Step(id, "confirm"))
     \/ ZkFault(Step(id, "failed"))

(* import_retrieved_upgrade_mode_token.                                      *)
ImportUpgradeToken(id) ==
  /\ At(id, "import") /\ zk.api[id] = "upgrade"
  /\ \/ zk' = [Step(id, "confirm") EXCEPT !.jwt = TRUE]
     \/ ZkFault(Step(id, "failed"))

ConfirmDownload(id) ==
  /\ At(id, "confirm")
  /\ \/ zk' = [Step(id, "remove") EXCEPT !.api[id] = "confirmed"]
     \/ ZkFault([Step(id, "failed") EXCEPT !.api[id] = "confirmed"])
     \/ ZkFault(Step(id, "failed"))

RemovePending(id) ==
  /\ At(id, "remove")
  /\ \/ zk' = [Step(id, "done") EXCEPT !.pending = @ \ {id}]
     \/ ZkFault(Step(id, "failed"))

(* The API's side: it issues the ticketbook, reports upgrade mode or fails.  *)
ApiAnswers(id, answer) ==
  /\ zk.api[id] = "pending"
  /\ zk' = [zk EXCEPT !.api[id] = answer, !.book[id] = (answer = "ready")]

-----------------------------------------------------------------------------
ZkInit ==
  zk = [phase |-> "idle", work |-> [id \in ZkIds |-> "off"], api |-> [id \in ZkIds |-> "none"],
        book |-> [id \in ZkIds |-> FALSE], pending |-> {}, stale |-> {},
        books |-> [id \in ZkIds |-> 0], jwt |-> FALSE, faults |-> ZkFaults]

ZkWork(id) ==
  \/ SendRequest(id) \/ InsertPending(id) \/ Poll(id) \/ Import(id)
  \/ ImportUpgradeToken(id) \/ ConfirmDownload(id) \/ RemovePending(id)

ZkNext ==
  \/ \E stale \in SUBSET zk.pending : StartFetch(stale)
  \/ \E ids \in SUBSET ZkIds : StartRequests(ids)
  \/ EndFetch \/ WaitTimesOut \/ AbortFetch
  \/ \E id \in ZkIds : ZkWork(id)
  \/ \E id \in ZkIds, answer \in {"ready", "upgrade", "error"} : ApiAnswers(id, answer)

(* Calls end by their timeouts, and RefreshTimer brings the next fetch.      *)
ZkFairSteps == {"fetch", "requests", "end", "work", "answer"}

ZkFair(s, id) ==
  \/ s = "fetch" /\ StartFetch({})
  \/ s = "requests" /\ \E ids \in SUBSET ZkIds : StartRequests(ids)
  \/ s = "end" /\ EndFetch
  \/ s = "work" /\ ZkWork(id)
  \/ s = "answer" /\ \E a \in {"ready", "error"} : ApiAnswers(id, a)

ZkFairness == \A s \in ZkFairSteps, id \in ZkIds : WF_zkVars(ZkFair(s, id))

ZkSpec == ZkInit /\ [][ZkNext]_zkVars /\ ZkFairness

-----------------------------------------------------------------------------
(* Types.  A retry never imports a ticketbook twice: the second import of an *)
(* id whose confirmation or clean-up failed is the duplicate the import      *)
(* tolerates.                                                                *)
ZkTypeOK ==
  /\ zk.phase \in {"idle", "resume", "request"}
  /\ zk.work \in [ZkIds -> {"off", "send", "insert", "poll", "import", "confirm", "remove",
                            "done", "failed"}]
  /\ zk.api \in [ZkIds -> {"none", "pending", "ready", "upgrade", "error", "confirmed"}]
  /\ zk.pending \in SUBSET ZkIds /\ zk.books \in [ZkIds -> 0..1]
  /\ zk.faults \in 0..ZkFaults

(* "Once we successfully manage to import the zk-nym ticketbook ... we tell  *)
(* the vpn-api that we have downloaded it": the API forgets a ticketbook     *)
(* only when the storage holds it, whatever fails and wherever a fetch ends. *)
ConfirmedIsHeld ==
  \A id \in ZkIds : zk.api[id] = "confirmed" /\ zk.book[id] => zk.books[id] = 1

(* The secrets of a request stay in the pending table until the API has been *)
(* told of the download, so a fetch that ends anywhere in between can be     *)
(* resumed; only the stale clean-up removes them earlier.                    *)
ResumableUntilConfirmed ==
  \A id \in ZkIds :
    zk.api[id] \in {"pending", "ready", "upgrade"} /\ zk.work[id] \in {"poll", "import", "confirm"}
      => id \in zk.pending

(* A ticketbook the API has ready for a pending request is in the end held   *)
(* here (or its request went stale), though any fetch may be cut short.      *)
ReadyIsFetched ==
  \A id \in ZkIds :
    (id \in zk.pending /\ zk.api[id] = "ready") ~> (zk.books[id] = 1 \/ id \in zk.stale)

(* No ticketbook is lost between the API, the pending table and the storage, *)
(* whatever fails and wherever a fetch ends.                                 *)
TicketsSafe == ZkTypeOK /\ ConfirmedIsHeld /\ ResumableUntilConfirmed
=============================================================================
