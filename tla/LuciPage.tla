------------------------------ MODULE LuciPage ------------------------------
(***************************************************************************)
(* The LuCI page of the router (luci-app-nym-vpn): the store, the hero     *)
(* with its action button, the connect, cancel and disconnect flows, the   *)
(* one modal every flow shares, the service and account flows, and the     *)
(* background status poll.  JavaScript runs one callback at a time; what   *)
(* interleaves is the replies.  A promise chain is a task: it waits for    *)
(* one call, the bridge carries the call out in a step of its own and the  *)
(* chain's next callback runs when the reply is delivered.                 *)
(*                                                                         *)
(* The daemon is what the bridge's replies tell of it.  A modal covers the *)
(* page, so the buttons of the cards cannot be pressed while one is up.    *)
(***************************************************************************)
EXTENDS Naturals, FiniteSets

CONSTANTS
    PageTasks,     \* slots for the promise chains in flight, numbered
    MAX_POLLS,     \* polls of a connect or disconnect before it gives up
    PageBudget,    \* bound: buttons pressed on the cards, calls lost or failing and
                   \* things the daemon does by itself, together
    PageFlows      \* the flows the user may start

VARIABLES
    page,       \* store and hero: busy, hero, action, prevState, prevTunnelError, ...
    modal,      \* the active modal and what its buttons run
    tasks,      \* the promise chains in flight
    polls,      \* background calls in flight: status, account card
    daemon,     \* the daemon behind the bridge
    spent       \* what is used of the budget

pageVars == <<page, modal, tasks, polls, daemon, spent>>

Connecting == {"connected", "connecting"}
NoReply == [res |-> "none", state |-> "", tunnel_error |-> "", error_reason |-> ""]
Plain(res) == [NoReply EXCEPT !.res = res]
IdleTask == [flow |-> "idle", call |-> "none", count |-> 0, relax |-> FALSE, reply |-> NoReply]
NoTasks == [t \in PageTasks |-> IdleTask]
NoPolls == [status |-> {}, account |-> {}]
NoModal == [kind |-> "none", flow |-> "none"]

\* The reply of `status`: Error reads as disconnected with the reason beside
\* it, and a daemon that does not answer reads as unknown.
status == [res |-> "ok",
           state |-> IF ~daemon.up THEN "unknown"
                     ELSE IF daemon.state = "error" THEN "disconnected" ELSE daemon.state,
           tunnel_error |-> IF daemon.up /\ daemon.state = "error" THEN daemon.error ELSE "",
           error_reason |-> IF daemon.up /\ daemon.state # "connected"
                               /\ daemon.account \in {"none", "error"}
                            THEN daemon.account ELSE ""]

\* What the account card reads.
account_get == Plain(IF daemon.up THEN daemon.account ELSE "unavailable")

\* The faces of the action button; "connecting" and "wait" are disabled.
setAction == {"connect", "connecting", "cancel", "disconnect", "wait"}

\* The button a poll leaves: "waiting" is Offline with reconnect set.
onStatus(st) == CASE st.state = "connected" -> "disconnect"
                   [] st.state \in {"disconnected", "offline"} -> "connect"
                   [] st.state \in {"connecting", "waiting"} -> "cancel"
                   [] OTHER -> "wait"

\* The action button of a page that has just loaded: a tunnel on its way
\* down offers Connect, where a later poll would show it waiting.
InitialAction(st) == CASE st.state = "connected" -> "disconnect"
                       [] st.state = "connecting" -> "cancel"
                       [] OTHER -> "connect"

\* The store seeded from the init batch, and the cards rendered from it;
\* notifications is the daemon's setting, which no flow here changes.
seed(notifications) ==
        [busy |-> FALSE, hero |-> status.state, action |-> InitialAction(status),
         prevState |-> status.state, prevTunnelError |-> status.tunnel_error,
         prevErrorReason |-> status.error_reason, running |-> daemon.up,
         card |-> account_get.res, notifications |-> notifications]

-----------------------------------------------------------------------------
\* The bridge: one call of a task carried out against the daemon.

Down == daemon.state \in {"disconnected", "error"}
Booted == [daemon EXCEPT !.up = TRUE, !.state = "disconnected", !.error = ""]

connect(relax) ==
    daemon' = CASE Down -> [daemon EXCEPT !.state = "connecting", !.error = "", !.relaxed = relax]
                [] daemon.state = "offline" -> [daemon EXCEPT !.state = "waiting", !.relaxed = relax]
                [] OTHER -> daemon

disconnect ==
    daemon' = CASE daemon.state \in Connecting -> [daemon EXCEPT !.state = "disconnecting"]
                [] daemon.state = "error" -> [daemon EXCEPT !.state = "disconnected", !.error = ""]
                [] daemon.state = "waiting" -> [daemon EXCEPT !.state = "offline"]
                [] OTHER -> daemon

Answers(t, res) == tasks' = [tasks EXCEPT ![t].reply = Plain(res)]

\* The calls the daemon answers over gRPC.
gateway_set(t) == Answers(t, "ok") /\ UNCHANGED daemon
tentative_gateways(t) ==
    /\ \E verdict \in {"selected", "needs_relaxed"}: Answers(t, verdict)
    /\ UNCHANGED daemon
account_set(t) ==
    IF daemon.account = "none"
    THEN Answers(t, "ok") /\ daemon' = [daemon EXCEPT !.account = "syncing"]
    ELSE Answers(t, "fail") /\ UNCHANGED daemon
account_forget(t) ==
    IF Down THEN Answers(t, "ok") /\ daemon' = [daemon EXCEPT !.account = "none"]
            ELSE Answers(t, "fail") /\ UNCHANGED daemon
account_rotate_keys(t) == Answers(t, IF Down THEN "ok" ELSE "fail") /\ UNCHANGED daemon

\* The calls the bridge answers from the init script, and from whether the
\* daemon runs afterwards: it may fail to come up, or to stop.
Spends == spent < PageBudget /\ spent' = spent + 1
daemon_state_json(t, started) ==
    \/ Answers(t, "ok") /\ daemon' = started /\ UNCHANGED spent
    \/ Answers(t, "fail") /\ daemon' = [started EXCEPT !.up = FALSE] /\ Spends
daemon_restart(t) == daemon_state_json(t, Booted)
daemon_start(t) ==
    IF daemon.up THEN Answers(t, "ok") /\ UNCHANGED <<daemon, spent>> ELSE daemon_state_json(t, Booted)
daemon_stop(t) ==
    \/ Answers(t, "ok") /\ daemon' = [Booted EXCEPT !.up = FALSE] /\ UNCHANGED spent
    \/ Answers(t, "fail") /\ UNCHANGED daemon /\ Spends
account_reset(t) == daemon_state_json(t, [Booted EXCEPT !.account = "none"])

DaemonCalls == {"gateway_set", "tentative_gateways", "connect", "disconnect", "account_set",
                "account_forget", "account_rotate_keys"}
ScriptCalls == {"start", "stop", "restart", "account_reset"}

dispatch(t) ==
    LET call == tasks[t].call IN
    /\ tasks[t].flow # "idle" /\ tasks[t].reply = NoReply
    /\ \/ /\ daemon.up
          /\ \/ call = "gateway_set" /\ gateway_set(t)
             \/ call = "tentative_gateways" /\ tentative_gateways(t)
             \/ call = "connect" /\ Answers(t, "ok") /\ connect(tasks[t].relax)
             \/ call = "disconnect" /\ Answers(t, "ok") /\ disconnect
             \/ call = "account_set" /\ account_set(t)
             \/ call = "account_forget" /\ account_forget(t)
             \/ call = "account_rotate_keys" /\ account_rotate_keys(t)
          /\ UNCHANGED spent
       \/ /\ \/ call \in DaemonCalls /\ ~daemon.up /\ Answers(t, "fail")
             \/ call = "status" /\ tasks' = [tasks EXCEPT ![t].reply = status]
             \/ call = "account_get" /\ tasks' = [tasks EXCEPT ![t].reply = account_get]
          /\ UNCHANGED <<daemon, spent>>
       \/ call = "restart" /\ daemon_restart(t)
       \/ call = "start" /\ daemon_start(t)
       \/ call = "stop" /\ daemon_stop(t)
       \/ call = "account_reset" /\ account_reset(t)
    /\ UNCHANGED <<page, modal, polls>>

\* The bridge gives up on a hung daemon, or the page on the bridge: the
\* promise rejects, whether or not the call was carried out.
timeout_reply(t) ==
    /\ tasks[t].call \in DaemonCalls \cup ScriptCalls \cup {"status", "account_get"}
    /\ tasks[t].reply.res # "lost"
    /\ tasks' = [tasks EXCEPT ![t].reply = Plain("lost")]
    /\ Spends
    /\ UNCHANGED <<page, modal, polls, daemon>>

-----------------------------------------------------------------------------
\* What the callbacks share.

Free == {t \in PageTasks: tasks[t].flow = "idle" /\ \A u \in PageTasks: u < t => tasks[u].flow # "idle"}
New(flow, call, relax) == [IdleTask EXCEPT !.flow = flow, !.call = call, !.relax = relax]
Ends(t) == tasks' = [tasks EXCEPT ![t] = IdleTask]
Goes(t, call) == tasks' = [tasks EXCEPT ![t].call = call, ![t].reply = NoReply]
Polls(t, call) == tasks' = [tasks EXCEPT ![t].call = call, ![t].reply = NoReply, ![t].count = @ + 1]
Got(t, flow, call) ==
    tasks[t].flow = flow /\ tasks[t].call = call /\ tasks[t].reply.res # "none"
Reply(t) == tasks[t].reply

\* setBusy(false) and refreshStatus(), which then is never skipped.
settle == /\ page' = [page EXCEPT !.busy = FALSE]
          /\ polls' = [polls EXCEPT !.status = @ \cup {NoReply}]

hide == modal' = NoModal
show == modal' = [kind |-> "wait", flow |-> "none"]
confirm(flow) == modal' = [kind |-> "ask", flow |-> flow]

\* "Connect anyway" or "Change servers"; pre tells the check before a
\* connect from an error state the daemon is already in.
confirmSameFamily(pre) == modal' = [kind |-> "family", flow |-> IF pre THEN "connect" ELSE "none"]

showConnecting(cancelable) ==
    page' = [page EXCEPT !.busy = TRUE, !.hero = "connecting",
                         !.action = IF cancelable THEN "cancel" ELSE "connecting"]

showDisconnecting == page' = [page EXCEPT !.busy = TRUE, !.hero = "disconnecting", !.action = "wait"]

startConnect(t, relax) ==
    /\ showConnecting(TRUE)
    /\ tasks' = [tasks EXCEPT ![t] = New("connect", "connect", relax)]

handleTunnelError(reason) ==
    IF reason = "independence" THEN confirmSameFamily(FALSE) ELSE UNCHANGED modal

\* A button of the cards, none of which can be reached under a modal.
Click(flow) == flow \in PageFlows /\ modal.kind = "none" /\ Spends

-----------------------------------------------------------------------------
\* The connect flow.

handleConnect ==
    /\ Click("connect") /\ page.action = "connect"
    /\ showConnecting(FALSE)
    /\ \E t \in Free: tasks' = [tasks EXCEPT ![t] = New("connect", "gateway_set", FALSE)]
    /\ UNCHANGED <<modal, polls, daemon>>

connectFailed(t) == Ends(t) /\ settle /\ UNCHANGED modal

\* A gateway_set that fails is only logged; the chain goes on.
GatewaySaved(t) ==
    /\ Got(t, "connect", "gateway_set")
    /\ IF Reply(t).res = "lost" THEN connectFailed(t)
       ELSE Goes(t, "tentative_gateways") /\ UNCHANGED <<page, modal, polls>>
    /\ UNCHANGED <<daemon, spent>>

\* tentativeGateways never rejects: no usable answer connects as before.
tentativeGateways(t) ==
    /\ Got(t, "connect", "tentative_gateways")
    /\ IF Reply(t).res # "needs_relaxed" THEN startConnect(t, FALSE) /\ UNCHANGED modal
       ELSE IF ~page.notifications THEN startConnect(t, TRUE) /\ UNCHANGED modal
       ELSE confirmSameFamily(TRUE) /\ Ends(t) /\ UNCHANGED page
    /\ UNCHANGED <<polls, daemon, spent>>

ConnectReplied(t) ==
    /\ Got(t, "connect", "connect")
    /\ IF Reply(t).res = "ok" THEN Goes(t, "status") /\ UNCHANGED <<page, modal, polls>>
       ELSE connectFailed(t)
    /\ UNCHANGED <<daemon, spent>>

pollStatus(t) ==
    LET st == Reply(t)
        again == tasks[t].count + 1 < MAX_POLLS
    IN
    /\ Got(t, "connect", "status")
    /\ \/ /\ st.error_reason # ""
          /\ Goes(t, "disconnect") /\ UNCHANGED <<page, modal, polls>>
       \/ /\ st.error_reason = "" /\ st.tunnel_error # ""
          /\ handleTunnelError(st.tunnel_error) /\ Ends(t)
          /\ page' = [page EXCEPT !.busy = FALSE, !.prevTunnelError = st.tunnel_error]
          /\ polls' = [polls EXCEPT !.status = @ \cup {NoReply}]
       \/ /\ st.error_reason = "" /\ st.tunnel_error = "" /\ st.state = "connected"
          /\ page' = [page EXCEPT !.busy = FALSE, !.prevState = "connected"]
          /\ polls' = [polls EXCEPT !.status = @ \cup {NoReply}]
          /\ Ends(t) /\ UNCHANGED modal
       \/ /\ st.state \in {"connecting", "disconnecting"} \/ st.res = "lost"
          /\ st.error_reason = "" /\ again
          /\ Polls(t, "status") /\ UNCHANGED <<page, modal, polls>>
       \/ /\ st.error_reason = "" /\ st.tunnel_error = "" /\ st.state # "connected"
          /\ ~((st.state \in {"connecting", "disconnecting"} \/ st.res = "lost") /\ again)
          /\ settle /\ Ends(t) /\ UNCHANGED modal
    /\ UNCHANGED <<daemon, spent>>

\* The disconnect after an account error settles however it answers.
AccountErrorCleared(t) ==
    /\ Got(t, "connect", "disconnect")
    /\ settle /\ Ends(t) /\ UNCHANGED <<modal, daemon, spent>>

handleCancel ==
    /\ Click("connect") /\ page.action = "cancel"
    /\ showDisconnecting
    /\ \E t \in Free: tasks' = [tasks EXCEPT ![t] = New("cancel", "disconnect", FALSE)]
    /\ UNCHANGED <<modal, polls, daemon>>

CancelAnswered(t) ==
    /\ Got(t, "cancel", "disconnect")
    /\ page' = [page EXCEPT !.busy = FALSE,
                            !.prevState = IF Reply(t).res = "lost" THEN @ ELSE "disconnected"]
    /\ polls' = [polls EXCEPT !.status = @ \cup {NoReply}]
    /\ Ends(t) /\ UNCHANGED <<modal, daemon, spent>>

handleDisconnect ==
    /\ Click("connect") /\ page.action = "disconnect"
    /\ showDisconnecting
    /\ \E t \in Free: tasks' = [tasks EXCEPT ![t] = New("disconnect", "disconnect", FALSE)]
    /\ UNCHANGED <<modal, polls, daemon>>

DisconnectAnswered(t) ==
    /\ Got(t, "disconnect", "disconnect")
    /\ IF Reply(t).res = "ok" THEN Goes(t, "status") /\ UNCHANGED <<page, polls>>
       ELSE settle /\ Ends(t)
    /\ UNCHANGED <<modal, daemon, spent>>

pollDisconnect(t) ==
    /\ Got(t, "disconnect", "status")
    /\ IF Reply(t).state # "disconnected" /\ tasks[t].count + 1 < MAX_POLLS
       THEN Polls(t, "status") /\ UNCHANGED <<page, polls>>
       ELSE /\ page' = [page EXCEPT !.busy = FALSE,
                        !.prevState = IF Reply(t).state = "disconnected" THEN "disconnected" ELSE @]
            /\ polls' = [polls EXCEPT !.status = @ \cup {NoReply}]
            /\ Ends(t)
    /\ UNCHANGED <<modal, daemon, spent>>

\* "Connect anyway", and "Change servers": abortConnectUi after the
\* pre-connect check, only the pickers' focus after an error state.
ConnectAnyway ==
    /\ modal.kind = "family"
    /\ hide /\ \E t \in Free: startConnect(t, TRUE)
    /\ UNCHANGED <<polls, daemon, spent>>

abortConnectUi ==
    /\ modal.kind = "family" /\ hide
    /\ IF modal.flow = "connect"
       THEN /\ page' = [page EXCEPT !.busy = FALSE, !.hero = "disconnected", !.action = "connect"]
            /\ polls' = [polls EXCEPT !.status = @ \cup {NoReply}]
       ELSE UNCHANGED <<page, polls>>
    /\ UNCHANGED <<tasks, daemon, spent>>

-----------------------------------------------------------------------------
\* Start, stop and restart of the service.

ServiceActions == {"start", "stop", "restart"}

\* A success stays on screen, then fades: the timer hides the modal that is
\* up when it fires, and reload tells that the page is loaded afresh then.
setSuccess(t, reload) == tasks' = [tasks EXCEPT ![t] = New("fade", "fade", reload)]

\* run's execute.
execute(t, action) == show /\ tasks' = [tasks EXCEPT ![t] = New(action, action, FALSE)]

run(action) ==
    /\ Click("service")
    /\ action = "start" => ~page.running
    /\ action = "stop" => page.running
    /\ \E t \in Free:
         IF action = "start" THEN execute(t, action)
         ELSE tasks' = [tasks EXCEPT ![t] = New(action, "status", FALSE)] /\ UNCHANGED modal
    /\ UNCHANGED <<page, polls, daemon>>

ServiceChecked(t) ==
    /\ \E action \in ServiceActions:
         /\ Got(t, action, "status")
         /\ IF Reply(t).state \in Connecting THEN confirm(action) /\ Ends(t) ELSE execute(t, action)
    /\ UNCHANGED <<page, polls, daemon, spent>>

ServiceConfirmed ==
    /\ modal.kind = "ask" /\ modal.flow \in ServiceActions
    /\ show
    /\ \E t \in Free: tasks' = [tasks EXCEPT ![t] = New(modal.flow, "disconnect", FALSE)]
    /\ UNCHANGED <<page, polls, daemon, spent>>

\* A second after the disconnect, or at once when it fails.
ServiceDisconnected(t) ==
    /\ \E action \in ServiceActions: Got(t, action, "disconnect") /\ execute(t, action)
    /\ UNCHANGED <<page, polls, daemon, spent>>

\* The reply tells whether the daemon runs, whether or not the action
\* succeeded; a call that fails outright only takes the modal down.
ServiceActed(t) ==
    /\ \E action \in ServiceActions:
         /\ Got(t, action, action)
         /\ IF Reply(t).res = "lost" THEN UNCHANGED <<page, polls>>
            ELSE /\ page' = [page EXCEPT !.running = (Reply(t).res = "ok") = (action # "stop")]
                 /\ polls' = [polls EXCEPT !.account = @ \cup {NoReply}]
    /\ IF Reply(t).res = "ok" THEN setSuccess(t, FALSE) /\ UNCHANGED modal ELSE hide /\ Ends(t)
    /\ UNCHANGED <<daemon, spent>>

-----------------------------------------------------------------------------
\* The account flows.

\* What the card offers for the state it shows.
buildBody == CASE page.card \in {"ready", "syncing"} -> {"rotate", "logout"}
               [] page.card = "error" -> {"logout", "reset"}
               [] page.card = "none" -> {"login", "reset"}
               [] OTHER -> {}

login ==
    /\ Click("account") /\ "login" \in buildBody
    /\ show /\ \E t \in Free: tasks' = [tasks EXCEPT ![t] = New("login", "account_set", FALSE)]
    /\ UNCHANGED <<page, polls, daemon>>

AccountSet(t) ==
    /\ Got(t, "login", "account_set")
    /\ IF Reply(t).res = "ok" THEN Goes(t, "account_get") /\ UNCHANGED modal
       ELSE hide /\ Ends(t)
    /\ UNCHANGED <<page, polls, daemon, spent>>

pollAccountStatus(t) ==
    /\ Got(t, "login", "account_get")
    /\ \/ Reply(t).res = "ready" /\ setSuccess(t, TRUE) /\ UNCHANGED modal
       \/ Reply(t).res = "error" /\ hide /\ Ends(t)
       \/ /\ Reply(t).res \notin {"ready", "error"}
          /\ IF tasks[t].count + 1 < MAX_POLLS THEN Polls(t, "account_get") /\ UNCHANGED modal
             ELSE hide /\ Ends(t)
    /\ UNCHANGED <<page, polls, daemon, spent>>

logout == /\ Click("account") /\ "logout" \in buildBody
          /\ confirm("logout") /\ UNCHANGED <<page, tasks, polls, daemon>>

LogoutConfirmed ==
    /\ modal.kind = "ask" /\ modal.flow = "logout" /\ show
    /\ \E t \in Free: tasks' = [tasks EXCEPT ![t] = New("logout", "status", FALSE)]
    /\ UNCHANGED <<page, polls, daemon, spent>>

\* The check before a logout, count 0, and the polls after its disconnect.
LogoutPolls(t) ==
    /\ Got(t, "logout", "status")
    /\ CASE tasks[t].count = 0 /\ Reply(t).state \in Connecting -> Polls(t, "disconnect")
         [] tasks[t].count > 0 /\ Reply(t).res # "lost" /\ Reply(t).state # "disconnected"
              /\ tasks[t].count < MAX_POLLS -> Polls(t, "status")
         [] OTHER -> Goes(t, "account_forget")
    /\ UNCHANGED <<page, modal, polls, daemon, spent>>

LogoutDisconnected(t) ==
    /\ Got(t, "logout", "disconnect")
    /\ Goes(t, IF Reply(t).res = "lost" THEN "account_forget" ELSE "status")
    /\ UNCHANGED <<page, modal, polls, daemon, spent>>

doLogout(t) ==
    /\ Got(t, "logout", "account_forget")
    /\ IF Reply(t).res = "ok" THEN setSuccess(t, TRUE) /\ UNCHANGED modal ELSE hide /\ Ends(t)
    /\ UNCHANGED <<page, polls, daemon, spent>>

reset == /\ Click("account") /\ "reset" \in buildBody
         /\ confirm("reset") /\ UNCHANGED <<page, tasks, polls, daemon>>

ResetConfirmed ==
    /\ modal.kind = "ask" /\ modal.flow = "reset" /\ show
    /\ \E t \in Free: tasks' = [tasks EXCEPT ![t] = New("reset", "account_reset", FALSE)]
    /\ UNCHANGED <<page, polls, daemon, spent>>

ResetDone(t) ==
    /\ Got(t, "reset", "account_reset")
    /\ IF Reply(t).res = "ok" THEN setSuccess(t, TRUE) /\ UNCHANGED modal ELSE hide /\ Ends(t)
    /\ UNCHANGED <<page, polls, daemon, spent>>

rotateKeys ==
    /\ Click("account") /\ "rotate" \in buildBody
    /\ \E t \in Free: tasks' = [tasks EXCEPT ![t] = New("rotate", "status", FALSE)]
    /\ UNCHANGED <<page, modal, polls, daemon>>

\* A status that rejects ends the chain: nothing catches it.
RotateChecked(t) ==
    /\ Got(t, "rotate", "status")
    /\ IF Reply(t).res = "lost" \/ Reply(t).state \in Connecting THEN Ends(t) /\ UNCHANGED modal
       ELSE show /\ Goes(t, "account_rotate_keys")
    /\ UNCHANGED <<page, polls, daemon, spent>>

Rotated(t) == /\ Got(t, "rotate", "account_rotate_keys") /\ hide /\ Ends(t)
              /\ UNCHANGED <<page, polls, daemon, spent>>

-----------------------------------------------------------------------------
\* The modal's safe button, its timers, and a page loaded afresh.

Declined == /\ modal.kind = "ask" /\ hide /\ UNCHANGED <<page, tasks, polls, daemon, spent>>

fadeOut(t) ==
    /\ tasks[t].call = "fade"
    /\ IF modal.kind # "none"
       THEN tasks' = [tasks EXCEPT ![t].call = "hide"] /\ UNCHANGED <<page, polls>>
       ELSE IF tasks[t].relax
       THEN page' = seed(page.notifications) /\ polls' = NoPolls /\ tasks' = NoTasks
       ELSE Ends(t) /\ UNCHANGED <<page, polls>>
    /\ UNCHANGED <<modal, daemon, spent>>

FadedOut(t) ==
    /\ tasks[t].call = "hide" /\ hide
    /\ IF tasks[t].relax THEN page' = seed(page.notifications) /\ polls' = NoPolls /\ tasks' = NoTasks
                         ELSE Ends(t) /\ UNCHANGED <<page, polls>>
    /\ UNCHANGED <<daemon, spent>>

-----------------------------------------------------------------------------
\* The background polls.  The timer starts none while its last one is out.

startPolling ==
    /\ polls.status = {} /\ ~page.busy
    /\ polls' = [polls EXCEPT !.status = {NoReply}]
    /\ UNCHANGED <<page, modal, tasks, daemon, spent>>

\* The bridge answers a background call, or it is lost.
PollAnswered ==
    /\ \/ NoReply \in polls.status
          /\ polls' = [polls EXCEPT !.status = (@ \ {NoReply}) \cup {status}]
       \/ NoReply \in polls.account
          /\ polls' = [polls EXCEPT !.account = (@ \ {NoReply}) \cup {account_get}]
    /\ UNCHANGED <<page, modal, tasks, daemon, spent>>

PollLost ==
    /\ Spends
    /\ \/ polls.status # {} /\ \E r \in polls.status: polls' = [polls EXCEPT !.status = @ \ {r}]
       \/ polls.account # {} /\ \E r \in polls.account: polls' = [polls EXCEPT !.account = @ \ {r}]
    /\ UNCHANGED <<page, modal, tasks, daemon>>

\* Faulty variant: the hero hears of a status only when the state is new.
applyStatusOnChange(st) ==
    /\ page' = [page EXCEPT !.hero = IF st.state = page.prevState THEN @ ELSE st.state,
                            !.action = IF st.state = page.prevState THEN @ ELSE onStatus(st),
                            !.prevState = st.state,
                            !.prevTunnelError = st.tunnel_error, !.prevErrorReason = st.error_reason]
    /\ polls' = [polls EXCEPT !.status = @ \ {st}]
    /\ UNCHANGED modal

\* The store takes a status, and the hero and the account card hear of it.
applyStatus(st) ==
    /\ page' = [page EXCEPT !.hero = st.state, !.action = onStatus(st), !.prevState = st.state,
                            !.prevTunnelError = st.tunnel_error, !.prevErrorReason = st.error_reason]
    /\ polls' = [status |-> polls.status \ {st},
                 account |-> IF \/ st.error_reason # page.prevErrorReason
                                \/ (st.state = "unknown") # (page.prevState = "unknown")
                             THEN polls.account \cup {NoReply} ELSE polls.account]
    /\ IF st.tunnel_error \notin {"", page.prevTunnelError}
       THEN handleTunnelError(st.tunnel_error) ELSE UNCHANGED modal

\* Busy is read again when the reply is in.
refreshStatus ==
    /\ \E st \in polls.status \ {NoReply}:
         IF page.busy THEN polls' = [polls EXCEPT !.status = @ \ {st}] /\ UNCHANGED <<page, modal>>
         ELSE applyStatus(st)
    /\ UNCHANGED <<tasks, daemon, spent>>

\* The account card is rebuilt from whichever reply comes in.
refresh ==
    /\ \E r \in polls.account \ {NoReply}:
         /\ page' = [page EXCEPT !.card = r.res]
         /\ polls' = [polls EXCEPT !.account = @ \ {r}]
    /\ UNCHANGED <<modal, tasks, daemon, spent>>

\* The service badge, which no flow holds up; asked and shown in one step.
refreshDaemon ==
    /\ page.running # daemon.up
    /\ page' = [page EXCEPT !.running = daemon.up]
    /\ UNCHANGED <<modal, tasks, polls, daemon, spent>>

-----------------------------------------------------------------------------
\* What the daemon does by itself.

Moves(from, to) == daemon.state = from /\ daemon' = [daemon EXCEPT !.state = to]

DaemonSettles ==
    /\ daemon.up
    /\ \/ daemon.account # "none" /\ Moves("connecting", "connected")
       \/ Moves("disconnecting", "disconnected")
       \/ daemon.account = "syncing" /\ daemon' = [daemon EXCEPT !.account = "ready"]
    /\ UNCHANGED <<page, modal, tasks, polls, spent>>

DaemonTurns ==
    /\ daemon.up /\ Spends
    /\ \/ \E error \in {"gateway"} \cup (IF daemon.relaxed THEN {} ELSE {"independence"}):
            /\ daemon.state = "connecting"
            /\ daemon' = [daemon EXCEPT !.state = "error", !.error = error]
       \/ \E from \in Connecting: Moves(from, "waiting")
       \/ Moves("waiting", "connecting")
       \/ Moves("offline", "disconnected")
       \/ daemon.account = "ready" /\ daemon' = [daemon EXCEPT !.account = "error"]
       \/ daemon.account = "error" /\ daemon' = [daemon EXCEPT !.account = "ready"]
    /\ UNCHANGED <<page, modal, tasks, polls>>

PageInit ==
    /\ daemon \in [up: {TRUE}, state: {"disconnected", "connected"}, error: {""},
                   account: {"ready", "none"}, relaxed: {FALSE}]
    /\ daemon.account = "none" => daemon.state = "disconnected"
    /\ \E notifications \in BOOLEAN: page = seed(notifications)
    /\ modal = NoModal /\ tasks = NoTasks /\ polls = NoPolls
    /\ spent = 0

Callback(t) ==
    \/ GatewaySaved(t) \/ tentativeGateways(t) \/ ConnectReplied(t) \/ pollStatus(t)
    \/ AccountErrorCleared(t) \/ CancelAnswered(t) \/ DisconnectAnswered(t) \/ pollDisconnect(t)
    \/ ServiceChecked(t) \/ ServiceDisconnected(t) \/ ServiceActed(t)
    \/ AccountSet(t) \/ pollAccountStatus(t) \/ LogoutPolls(t) \/ LogoutDisconnected(t)
    \/ doLogout(t) \/ ResetDone(t) \/ RotateChecked(t) \/ Rotated(t) \/ fadeOut(t) \/ FadedOut(t)

\* The buttons of a modal that asks.
Choice == ConnectAnyway \/ abortConnectUi \/ ServiceConfirmed \/ LogoutConfirmed \/ ResetConfirmed
          \/ Declined

PageNext ==
    \/ \E t \in PageTasks: dispatch(t) \/ timeout_reply(t) \/ Callback(t)
    \/ handleConnect \/ handleCancel \/ handleDisconnect \/ \E action \in ServiceActions: run(action)
    \/ login \/ logout \/ reset \/ rotateKeys \/ Choice
    \/ startPolling \/ PollAnswered \/ PollLost \/ refreshStatus \/ refresh \/ refreshDaemon
    \/ DaemonSettles \/ DaemonTurns

\* Calls are answered, callbacks run and timers fire; a user who is asked
\* chooses.  Nothing is assumed of the daemon or of further clicks.
PageFairSteps == {"dispatch", "callback", "choice", "start", "poll", "status", "refresh", "daemon"}

PageFair(s, t) ==
    \/ s = "dispatch" /\ dispatch(t)
    \/ s = "callback" /\ Callback(t)
    \/ s = "choice" /\ Choice
    \/ s = "start" /\ startPolling
    \/ s = "poll" /\ PollAnswered
    \/ s = "status" /\ refreshStatus
    \/ s = "refresh" /\ refresh
    \/ s = "daemon" /\ refreshDaemon

PageFairness == \A s \in PageFairSteps, t \in PageTasks : WF_pageVars(PageFair(s, t))

PageSpec == PageInit /\ [][PageNext]_pageVars
FairPageSpec == PageSpec /\ PageFairness

-----------------------------------------------------------------------------
\* Properties.

PageStates == {"disconnected", "connecting", "connected", "disconnecting", "offline", "waiting", "unknown"}

\* The store, the modal, the chains and the daemon hold only values the code
\* can put there.
PageTypeOK ==
    /\ page.busy \in BOOLEAN /\ page.hero \in PageStates /\ page.prevState \in PageStates
    /\ page.action \in setAction
    /\ modal.kind \in {"none", "wait", "ask", "family"}
    /\ \A t \in PageTasks: tasks[t].count <= MAX_POLLS
    /\ daemon.state \in (PageStates \ {"unknown"}) \cup {"error"}

\* Whatever chains of callbacks are under way, whichever reply overtakes
\* another and whatever is lost, the hero and its button do not stay wrong:
\* again and again they show what the daemon is in, or a flow owns the page
\* (store.js applyStatus and refreshStatus, cards/connection.js onStatus).
PageCatchesUp == []<>(page.busy \/ (page.hero = status.state /\ page.action = onStatus(status)))

\* A "please wait" modal covers the page and has no button: while one is up a
\* chain that will take it down is under way, though the modal is shared, any
\* flow's timer may hide another's and any call may fail (components/modal.js,
\* flows/daemon.js, cards/account.js).
OverlayOwned ==
    modal.kind = "wait" =>
        \E t \in PageTasks: tasks[t].flow \notin {"idle", "connect", "cancel", "disconnect"}

=============================================================================
