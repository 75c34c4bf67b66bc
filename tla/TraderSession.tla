---------------------------- MODULE TraderSession ----------------------------
(***************************************************************************)
(* How a session with a broker is opened and its data fetched, by the two  *)
(* actual trader drivers: login, submit_settlement and get_trader_data.    *)
(*                                                                         *)
(* The main thread sends a request, sets flags and sleeps on one condition *)
(* variable, without a predicate, until the API thread notifies it; the    *)
(* API thread runs the broker's callbacks, which clear the maps, fill them *)
(* row by row, read and reset the flags, and notify.  The mutex belongs to *)
(* the main thread alone, so an answer may come at any point between the   *)
(* request and the sleep, and its notification is then for nobody.  The    *)
(* sleep may also end by itself, as C++ allows, and nothing looks again.   *)
(*                                                                         *)
(* gaps remembers what can make the data that is fetched incomplete:       *)
(*   "relogin" the connection was lost before the first login was through; *)
(*   "early"   TAP: a row came before the flag that says it is a query's;  *)
(*   "index"   TAP: the driver is logged in again with the orders of the   *)
(*             last session still in _order_index, which logout keeps;     *)
(*   "error"   a query was answered with an error;                         *)
(*   "spurious" a wait ended by itself before its answer was through.      *)
(* lost says that nothing will notify the main thread any more.            *)
(***************************************************************************)
EXTENDS Integers, Sequences, FiniteSets, SequencesExt

CONSTANTS
  Apis,           \* the drivers: a subset of {"ctp", "tap"}
  PositionRows,   \* rows a position query may return
  OrderRows,      \* rows an order query may return
  MaxDrops,       \* bound: connections lost
  MaxSessions     \* bound: logins of one process

ASSUME SessionAssumption ==
  /\ Apis \subseteq {"ctp", "tap"} /\ MaxDrops \in Nat /\ MaxSessions \in Nat
  /\ IsFiniteSet(PositionRows) /\ IsFiniteSet(OrderRows)

VARIABLES
  api,        \* the driver in use
  rows,       \* what the broker has: [positions, orders]
  call,       \* the call the main thread is in, or "off", "done", "failed"
  step,       \* how far it is: "begin", "sent", "marked", "flagged", "asleep"
  inited,     \* _is_inited
  connected,  \* _is_connected
  syncWait,   \* _is_sync_wait
  inQuery,    \* _is_in_query
  data,       \* _position_info and _order_info: [positions, orders]
  index,      \* the TAP driver's _order_index
  wire,       \* callbacks to come
  checked,    \* OnRspUserLogin has found !_is_inited and will notify
  answered,   \* the calls of this session whose answer has been handled
  gaps, lost, drops, sessions

mainVars == <<call, step>>
flagVars == <<inited, connected, syncWait, inQuery>>
mapVars  == <<data, index>>
apiVars  == <<wire, checked, answered>>
histVars == <<gaps, lost, drops, sessions>>
vars == <<api, rows, mainVars, flagVars, mapVars, apiVars, histVars>>

NoData == [positions |-> {}, orders |-> {}]

Init ==
  /\ api \in Apis
  /\ rows \in [positions : SUBSET PositionRows, orders : SUBSET OrderRows]
  /\ call = "off" /\ step = "begin"
  /\ inited = FALSE /\ connected = FALSE /\ syncWait = FALSE /\ inQuery = FALSE
  /\ data = NoData /\ index = {}
  /\ wire = <<>> /\ checked = FALSE /\ answered = {}
  /\ gaps = {} /\ lost = FALSE /\ drops = 0 /\ sessions = 0

-----------------------------------------------------------------------------
(* The callbacks the broker sends for a request: the rows of a query, the
   last of them marked, or one without a row. *)

Plain(kind) == [kind |-> kind, row |-> {}, last |-> TRUE]

Rows(kind, S) ==
  IF S = {} THEN <<Plain(kind)>>
  ELSE LET q == SetToSeq(S)
       IN [i \in 1..Len(q) |-> [kind |-> kind, row |-> {q[i]}, last |-> i = Len(q)]]

Answer(c) ==
  CASE c = "login" /\ api = "ctp" -> <<Plain("connected")>>
    [] c = "login" /\ api = "tap" -> <<Plain("connected"), Plain("ready")>>
    [] c = "settle"               -> <<Plain("settled")>>
    [] c = "positions"            -> Rows("positions", rows.positions)
    [] c = "orders"               -> Rows("orders", rows.orders)

\* What follows the answer on the wire.
Behind(c) == SubSeq(wire, Len(Answer(c)) + 1, Len(wire))

IsQuery(c) == c \in {"positions", "orders"}
Calls      == {"login", "settle", "positions", "orders"}

\* The main thread's calls in their order: TAP has no settlement to confirm.
After(c) ==
  CASE c = "login"     -> IF api = "ctp" THEN "settle" ELSE "positions"
    [] c = "settle"    -> "positions"
    [] c = "positions" -> "orders"
    [] c = "orders"    -> "done"

-----------------------------------------------------------------------------
(* The main thread *)

Start ==
  /\ call = "off" /\ sessions < MaxSessions
  /\ sessions' = sessions + 1
  /\ call' = "login" /\ step' = "begin"
  /\ gaps' = IF index # {} THEN gaps \cup {"index"} ELSE gaps
  /\ UNCHANGED <<api, rows, flagVars, mapVars, apiVars, lost, drops>>

\* The request leaves.  CTP marks a query before it does.
Request ==
  /\ call \in Calls /\ step = "begin"
  /\ ~(IsQuery(call) /\ inQuery)
  /\ inQuery' = (inQuery \/ (IsQuery(call) /\ api = "ctp"))
  /\ step' = "sent"
  /\ wire' = wire \o Answer(call)
  /\ UNCHANGED <<api, rows, call, inited, connected, syncWait, mapVars, checked, answered,
                 histVars>>

\* Another query has not returned: get_trader_data gives what there is.  (CTP's
\* compare_exchange_weak may also fail by itself: a RequestFails.)
QueryPending ==
  /\ IsQuery(call) /\ step = "begin" /\ inQuery
  /\ call' = "failed"
  /\ UNCHANGED <<api, rows, step, flagVars, mapVars, apiVars, histVars>>

\* The API refuses a request: TAP's login and a query fail; submit_settlement
\* only logs it, and waits for an answer that cannot come.
RequestFails ==
  /\ call \in Calls /\ step = "begin"
  /\ ~(call = "login" /\ api = "ctp") /\ ~(IsQuery(call) /\ inQuery)
  /\ IF call = "settle" THEN step' = "sent" /\ lost' = TRUE /\ UNCHANGED call
                        ELSE call' = "failed" /\ UNCHANGED <<step, lost>>
  /\ UNCHANGED <<api, rows, flagVars, mapVars, apiVars, gaps, drops, sessions>>

\* TAP marks a query after the request.
MarkQuery ==
  /\ IsQuery(call) /\ step = "sent" /\ api = "tap"
  /\ inQuery' = TRUE
  /\ step' = "marked"
  /\ UNCHANGED <<api, rows, call, inited, connected, syncWait, mapVars, apiVars, histVars>>

\* Every wait but login's is announced to the callbacks.
SetSyncWait ==
  /\ call \in Calls \ {"login"}
  /\ step = IF IsQuery(call) /\ api = "tap" THEN "marked" ELSE "sent"
  /\ syncWait' = TRUE
  /\ step' = "flagged"
  /\ UNCHANGED <<api, rows, call, inited, connected, inQuery, mapVars, apiVars, histVars>>

\* _process_signal.wait: an answer that was handled by now has notified nobody.
Wait ==
  /\ call \in Calls
  /\ step = IF call = "login" THEN "sent" ELSE "flagged"
  /\ step' = "asleep"
  /\ lost' = (lost \/ call \in answered)
  /\ UNCHANGED <<api, rows, call, flagVars, mapVars, apiVars, gaps, drops, sessions>>

\* wait(lock) without a predicate may return by itself: no fairness, no bound.
\* Whoever had slept through the answer gets on by it.
SpuriousWakeup ==
  /\ step = "asleep"
  /\ step' = "awake"
  /\ gaps' = IF call \in answered /\ ~checked THEN gaps ELSE gaps \cup {"spurious"}
  /\ lost' = FALSE
  /\ UNCHANGED <<api, rows, call, flagVars, mapVars, apiVars, drops, sessions>>

\* Woken: login sets _is_inited before it goes on.
Resume ==
  /\ call \in Calls /\ step = "awake"
  /\ inited' = (inited \/ call = "login")
  /\ call' = After(call) /\ step' = "begin"
  /\ UNCHANGED <<api, rows, connected, syncWait, inQuery, mapVars, apiVars, histVars>>

\* stop_trading: logout resets CTP's driver, and TAP's but for the query flag
\* and the index.
Logout ==
  /\ call \in {"done", "failed"}
  /\ call' = "off" /\ step' = "begin"
  /\ inited' = FALSE /\ connected' = FALSE /\ syncWait' = FALSE
  /\ inQuery' = (inQuery /\ api = "tap")
  /\ data' = NoData
  /\ wire' = <<>> /\ checked' = FALSE /\ answered' = {} /\ lost' = FALSE
  /\ gaps' = IF inQuery' THEN gaps \cap {"early"} ELSE {}
  /\ UNCHANGED <<api, rows, index, drops, sessions>>

-----------------------------------------------------------------------------
(* The API thread *)

\* notify_all.
Notify == step' = IF step = "asleep" THEN "awake" ELSE step

Heads(k) == /\ wire # <<>> /\ ~checked /\ Head(wire).kind = k

\* OnFrontConnected and OnRspAuthenticate: each sends the next request.
Connected ==
  /\ Heads("connected")
  /\ connected' = TRUE
  /\ wire' = IF api = "ctp" THEN Append(Tail(wire), Plain("authenticated")) ELSE Tail(wire)
  /\ UNCHANGED <<api, rows, mainVars, inited, syncWait, inQuery, mapVars, checked, answered,
                 histVars>>

Authenticated ==
  /\ Heads("authenticated")
  /\ wire' = Append(Tail(wire), Plain("login"))
  /\ UNCHANGED <<api, rows, mainVars, flagVars, mapVars, checked, answered, histVars>>

\* An error of OnRspAuthenticate, OnRspUserLogin or OnRspLogin is logged; who
\* waits for the login waits on.
LoginFails ==
  /\ Heads("authenticated") \/ Heads("login") \/ Heads("ready")
  /\ wire' = Tail(wire)
  /\ lost' = (lost \/ ~inited)
  /\ UNCHANGED <<api, rows, mainVars, flagVars, mapVars, checked, answered, gaps, drops,
                 sessions>>

\* OnRspUserLogin asks for _is_inited, and then notifies.  (Slip: the other way
\* round.)
LoggedInOnlyAgain ==
  /\ Heads("login")
  /\ wire' = Tail(wire)
  /\ checked' = inited
  /\ answered' = answered \cup {"login"}
  /\ UNCHANGED <<api, rows, mainVars, flagVars, mapVars, histVars>>

LoggedIn ==
  /\ Heads("login")
  /\ wire' = Tail(wire)
  /\ checked' = ~inited
  /\ answered' = answered \cup {"login"}
  /\ UNCHANGED <<api, rows, mainVars, flagVars, mapVars, histVars>>

NotifyLogin ==
  /\ checked
  /\ checked' = FALSE
  /\ Notify
  /\ lost' = (lost \/ step = "sent")
  /\ UNCHANGED <<api, rows, call, flagVars, mapVars, wire, answered, gaps, drops, sessions>>

\* OnAPIReady and OnRspSettlementInfoConfirm.
Answered(c) ==
  /\ Heads(IF c = "login" THEN "ready" ELSE "settled")
  /\ wire' = Tail(wire)
  /\ answered' = answered \cup {c}
  /\ Notify
  /\ UNCHANGED <<api, rows, call, flagVars, mapVars, checked, histVars>>

\* What one row of a query leaves of a map.  (Slip: itself.)
TakenAlone(c, old, m) == m.row

Taken(c, old, m) ==
  (IF inQuery THEN {} ELSE old)
    \cup (IF c = "orders" /\ api = "tap" THEN m.row \ index ELSE m.row)

\* The map a query's rows go to.  (Slip: always the positions.)
PositionMap(c) == "positions"

MapOf(c) == c

\* OnRspQryInvestorPosition, OnRspQryOrder and TAP's OnRspQryPosition and
\* OnRspQryOrder.  CTP resets _is_sync_wait with the notification.
\* (Slip: every row ends the wait.)
QueryRowEndsWait(c) ==
  /\ Heads(c)
  /\ LET m == Head(wire)
     IN /\ inQuery' = FALSE
        /\ data' = [data EXCEPT ![MapOf(c)] = Taken(c, @, m)]
        /\ index' = IF c = "orders" /\ api = "tap" THEN index \cup m.row ELSE index
        /\ answered' = IF m.last THEN answered \cup {c} ELSE answered
        /\ IF syncWait THEN Notify /\ syncWait' = (api = "tap")
                       ELSE UNCHANGED <<step, syncWait>>
  /\ wire' = Tail(wire)
  /\ gaps' = IF api = "tap" /\ step = "sent" THEN gaps \cup {"early"} ELSE gaps
  /\ UNCHANGED <<api, rows, call, inited, connected, checked, lost, drops, sessions>>

QueryRow(c) ==
  /\ Heads(c)
  /\ LET m == Head(wire)
     IN /\ inQuery' = FALSE
        /\ data' = [data EXCEPT ![MapOf(c)] = Taken(c, @, m)]
        /\ index' = IF c = "orders" /\ api = "tap" THEN index \cup m.row ELSE index
        /\ answered' = IF m.last THEN answered \cup {c} ELSE answered
        /\ IF m.last /\ syncWait THEN Notify /\ syncWait' = (api = "tap")
                                 ELSE UNCHANGED <<step, syncWait>>
  /\ wire' = Tail(wire)
  /\ gaps' = IF api = "tap" /\ step = "sent" THEN gaps \cup {"early"} ELSE gaps
  /\ UNCHANGED <<api, rows, call, inited, connected, checked, lost, drops, sessions>>

\* A query is answered with an error and no row: OnRspQryInvestorPosition of CTP
\* leaves before it notifies, the others take it for an account without any.
QueryError(c) ==
  /\ Heads(c) /\ IsPrefix(Answer(c), wire)
  /\ wire' = Behind(c)
  /\ inQuery' = FALSE
  /\ data' = IF inQuery THEN [data EXCEPT ![MapOf(c)] = {}] ELSE data
  /\ gaps' = gaps \cup {"error"}
  /\ IF api = "ctp" /\ c = "positions"
     THEN lost' = TRUE /\ UNCHANGED <<step, syncWait, answered>>
     ELSE /\ answered' = answered \cup {c}
          /\ IF syncWait THEN Notify /\ syncWait' = (api = "tap")
                         ELSE UNCHANGED <<step, syncWait>>
          /\ UNCHANGED lost
  /\ UNCHANGED <<api, rows, call, inited, connected, index, checked, drops, sessions>>

\* OnFrontDisconnected: answers on their way are lost.  CTP's API connects
\* again by itself, which makes the driver authenticate and log in again.
Drop ==
  /\ connected /\ drops < MaxDrops
  /\ drops' = drops + 1
  /\ connected' = FALSE
  /\ wire' = IF api = "ctp" THEN <<Plain("connected")>> ELSE <<>>
  /\ lost' = (lost \/ (call \in Calls /\ call \notin answered /\ step # "begin"
                        /\ ~(api = "ctp" /\ call = "login")))
  /\ gaps' = IF inited THEN gaps ELSE gaps \cup {"relogin"}
  /\ UNCHANGED <<api, rows, mainVars, inited, syncWait, inQuery, mapVars, checked, answered,
                 sessions>>

-----------------------------------------------------------------------------
Main == \/ Request \/ QueryPending \/ RequestFails \/ MarkQuery \/ SetSyncWait \/ Wait
        \/ Resume

Api == \/ Connected \/ Authenticated \/ LoginFails \/ LoggedIn \/ NotifyLogin
       \/ Answered("login") \/ Answered("settle")
       \/ \E c \in {"positions", "orders"} : QueryRow(c) \/ QueryError(c)

Next == Start \/ Main \/ SpuriousWakeup \/ Logout \/ Api \/ Drop

\* Both threads run; sessions begin and end, connections drop and waits end by
\* themselves, at will.
Spec == Init /\ [][Next]_vars /\ WF_vars(Main) /\ WF_vars(Api)

-----------------------------------------------------------------------------
(* Properties *)

TypeOK ==
  /\ call \in Calls \cup {"off", "done", "failed"}
  /\ step \in {"begin", "sent", "marked", "flagged", "asleep", "awake"}
  /\ data \in [positions : SUBSET PositionRows, orders : SUBSET OrderRows]
  /\ index \subseteq OrderRows
  /\ answered \subseteq Calls
  /\ gaps \subseteq {"relogin", "early", "index", "error", "spurious"}

\* get_trader_data succeeds only with every row the broker has, whatever the
\* interleaving of its two queries with their answers, unless a gap was met:
\* the context then starts from all positions and orders of the account.
DataComplete == call = "done" /\ gaps = {} => data = rows

\* Although the threads share one condition variable without a predicate, no
\* call is woken by the answer to another: until a login is early or a wait ends
\* by itself, none goes on before its own answer is in.  (After either the
\* answers are one wait behind.)
WokenByOwnAnswer == step = "awake" /\ gaps \subseteq {"early", "index", "error"} => call \in answered

\* A thread that waits is woken, unless its answer cannot come or came before
\* it slept, or an early login or a wait that ended by itself put the answers
\* out of step with the waits.
WaitsEnd ==
  (step = "asleep") ~> (step # "asleep" \/ lost \/ gaps \cap {"relogin", "spurious"} # {})
=============================================================================
