-------------------------------- MODULE DemoUI --------------------------------
(***************************************************************************)
(* The page of the first match demo.  A component's update blocks until    *)
(* the goroutine of its Updater takes it.  An Updater sets its children,   *)
(* as one value, in the Updater it is nested in or in the byteSub, which   *)
(* wakes the subscribers, one for each open page.                          *)
(*                                                                         *)
(* A component's values are numbered; the JSON of an Updater is the number *)
(* of the last value of each component below it, 0 for an absent field.    *)
(***************************************************************************)
EXTENDS Integers

CONSTANTS
    Components,     \* the functions that demoui.Run starts, and those they start
    Nested,         \* Updaters made by NewNested, below the Updater of Run
    Root,           \* the Updater of Run
    Parent,         \* [Components -> Updaters]
    Pages,          \* websocket connections
    NoValue,        \* the byteSub's nil slice
    MaxUpdates      \* bound: updates of a component

Updaters == Nested \cup {Root}
Below(u) == {c \in Components : Parent[c] = u}
Fields(u) == Below(u) \cup IF u = Root THEN Nested ELSE {}

Object == [Components -> 0..MaxUpdates]
Empty == [c \in Components |-> 0]

ASSUME UIAssumption ==
    /\ Root \notin Nested /\ Parent \in [Components -> Updaters]
    /\ Components \cap Updaters = {} /\ MaxUpdates \in Nat
    /\ NoValue \notin Object

VARIABLES
    value,          \* number of the last value of each component
    updating,       \* components and nested updaters blocked in an update
    updater,        \* each start: "set", "wait", "drain", "remove" or "stopped"
    children,       \* the fields of each updater
    cancelled,      \* nested updaters whose context is done
    announced,      \* the byteSub's b
    page,           \* each Subscribe: "wait", "write", "stuck" in Write, or "gone"
    woken,          \* pages whose nextReady is closed
    written         \* what each page has been sent last

subscriberVars == <<page, woken, written>>
vars == <<value, updating, updater, children, cancelled, announced, subscriberVars>>

Init ==
    /\ value = Empty
    /\ updating = {} /\ cancelled = {}
    /\ updater = [u \in Updaters |-> "set"]
    /\ children = [u \in Updaters |-> Empty]
    /\ announced = NoValue
    /\ page = [p \in Pages |-> "wait"]
    /\ woken = Pages                        \* Subscribe begins with a closed channel
    /\ written = [p \in Pages |-> Empty]

-----------------------------------------------------------------------------
\* A component calls its SetFunc and blocks in the select.
Update(c) ==
    /\ c \notin updating /\ value[c] < MaxUpdates
    /\ value' = [value EXCEPT ![c] = @ + 1]
    /\ updating' = updating \cup {c}
    /\ UNCHANGED <<updater, children, cancelled, announced, subscriberVars>>

\* The select chooses ctx.Done.
UpdateIgnored(c) ==
    /\ c \in updating /\ Parent[c] \in cancelled
    /\ updating' = updating \ {c}
    /\ UNCHANGED <<value, updater, children, cancelled, announced, subscriberVars>>

\* The context of a nested updater is done.
Cancel(u) ==
    /\ u \in Nested \ cancelled
    /\ cancelled' = cancelled \cup {u}
    /\ UNCHANGED <<value, updating, updater, children, announced, subscriberVars>>

-----------------------------------------------------------------------------
\* start receives the update of a component.
ReceiveUpdate(u, f) ==
    /\ updater[u] \in {"wait", "drain"} /\ f \in Fields(u) \cap updating \cap Components
    /\ updating' = updating \ {f}
    /\ children' = [children EXCEPT ![u][f] = value[f]]
    /\ updater' = [updater EXCEPT ![u] = "drain"]
    /\ UNCHANGED <<value, cancelled, announced, subscriberVars>>

\* Variant: start calls u.set in a goroutine, so an earlier object of the
\* nested updater may arrive after a later one.
ReceiveUnordered(u) ==
    /\ updater[Root] \in {"wait", "drain"} /\ u \in Nested \cap updating
    /\ updating' = updating \ {u}
    /\ \E o \in Object :
          /\ \A c \in Components : o[c] <= children[u][c]
          /\ children' = [children EXCEPT ![Root] =
                [c \in Components |-> IF Parent[c] # u THEN @[c] ELSE o[c]]]
    /\ updater' = [updater EXCEPT ![Root] = "drain", ![u] = "wait"]
    /\ UNCHANGED <<value, cancelled, announced, subscriberVars>>

\* Run's start receives the object of a nested updater, whose u.set returns,
\* or the nil with which it removes itself.
ReceiveNested(u) ==
    /\ updater[Root] \in {"wait", "drain"} /\ u \in Nested \cap updating
    /\ updating' = updating \ {u}
    /\ children' = [children EXCEPT ![Root] =
            [c \in Components |-> IF Parent[c] # u THEN @[c]
                                  ELSE IF updater[u] = "remove" THEN 0 ELSE children[u][c]]]
    /\ updater' = [updater EXCEPT ![Root] = "drain",
                                  ![u] = IF @ = "remove" THEN "stopped" ELSE "wait"]
    /\ UNCHANGED <<value, cancelled, announced, subscriberVars>>

\* Variant: after draining, start waits again without setting its children.
ForgetToSet(u) ==
    /\ updater[u] = "drain" /\ Fields(u) \cap updating = {}
    /\ updater' = [updater EXCEPT ![u] = "wait"]
    /\ UNCHANGED <<value, updating, children, cancelled, announced, subscriberVars>>

\* The default of applyAllWaitingUpdates: no update is waiting.
Drained(u) ==
    /\ updater[u] = "drain" /\ Fields(u) \cap updating = {}
    /\ updater' = [updater EXCEPT ![u] = "set"]
    /\ UNCHANGED <<value, updating, children, cancelled, announced, subscriberVars>>

Stop(u) ==
    /\ u \in cancelled /\ updater[u] = "wait"
    /\ updater' = [updater EXCEPT ![u] = "remove"]
    /\ UNCHANGED <<value, updating, children, cancelled, announced, subscriberVars>>

\* u.set of a nested updater is a field of Run's.
SetNested(u) ==
    /\ u \in Nested \ updating /\ updater[u] \in {"set", "remove"}
    /\ updating' = updating \cup {u}
    /\ UNCHANGED <<value, updater, children, cancelled, announced, subscriberVars>>

\* Variant: the values are written to the pages under the byteSub's lock.
AnnounceUnderLock ==
    /\ updater[Root] = "set" /\ \A p \in Pages : page[p] \notin {"write", "stuck"}
    /\ updater' = [updater EXCEPT ![Root] = "wait"]
    /\ announced' = children[Root]
    /\ woken' = Pages
    /\ UNCHANGED <<value, updating, children, cancelled, page, written>>

\* u.set of Run's updater: the channel that the subscribers hold is closed.
AnnounceLatest ==
    /\ updater[Root] = "set"
    /\ updater' = [updater EXCEPT ![Root] = "wait"]
    /\ announced' = children[Root]
    /\ woken' = Pages
    /\ UNCHANGED <<value, updating, children, cancelled, page, written>>

-----------------------------------------------------------------------------
\* Variant: the value is read, and later, without the lock, the next channel.
GetInTwoSteps(p) ==
    /\ \/ /\ page[p] = "wait" /\ p \in woken /\ announced # NoValue
          /\ page' = [page EXCEPT ![p] = "got"]
          /\ written' = [written EXCEPT ![p] = announced]
          /\ UNCHANGED woken
       \/ /\ page[p] = "got"
          /\ page' = [page EXCEPT ![p] = "write"]
          /\ woken' = woken \ {p}
          /\ UNCHANGED written
    /\ UNCHANGED <<value, updating, updater, children, cancelled, announced>>

\* Subscribe gets the latest value, with a channel that the next announcement
\* closes, and writes it unless it is nil.
Get(p) ==
    /\ page[p] = "wait" /\ p \in woken
    /\ woken' = woken \ {p}
    /\ IF announced # NoValue
       THEN /\ page' = [page EXCEPT ![p] = "write"]
            /\ written' = [written EXCEPT ![p] = announced]
       ELSE UNCHANGED <<page, written>>
    /\ UNCHANGED <<value, updating, updater, children, cancelled, announced>>

Written(p) ==
    /\ page[p] = "write"
    /\ page' = [page EXCEPT ![p] = "wait"]
    /\ UNCHANGED <<value, updating, updater, children, cancelled, announced, woken, written>>

\* The browser stops reading, or goes away: Write blocks or fails, or the
\* request's context is done.
PageLost(p) ==
    /\ \/ page[p] = "write" /\ page' \in {[page EXCEPT ![p] = at] : at \in {"stuck", "gone"}}
       \/ page[p] = "wait" /\ page' = [page EXCEPT ![p] = "gone"]
    /\ UNCHANGED <<value, updating, updater, children, cancelled, announced, woken, written>>

-----------------------------------------------------------------------------
UpdaterStep(u) ==
    \/ \E c \in Components : ReceiveUpdate(u, c)
    \/ u = Root /\ (AnnounceLatest \/ \E v \in Nested : ReceiveNested(v))
    \/ Drained(u) \/ Stop(u) \/ SetNested(u)

PageStep(p) == Get(p) \/ Written(p)

Next ==
    \/ \E c \in Components : Update(c) \/ UpdateIgnored(c)
    \/ \E u \in Updaters : Cancel(u) \/ UpdaterStep(u)
    \/ \E p \in Pages : PageStep(p) \/ PageLost(p)

\* Goroutines that can run do; a component need not update, and a Write that
\* blocks need not return.
Spec ==
    /\ Init /\ [][Next]_vars
    /\ \A u \in Updaters : WF_vars(UpdaterStep(u))
    /\ \A p \in Pages : WF_vars(PageStep(p))
    /\ \A c \in Components : WF_vars(UpdateIgnored(c))

-----------------------------------------------------------------------------
TypeOK ==
    /\ value \in Object
    /\ updating \subseteq Components \cup Nested /\ cancelled \subseteq Nested
    /\ updater \in [Updaters -> {"set", "wait", "drain", "remove", "stopped"}]
    /\ children \in [Updaters -> Object]
    /\ announced \in Object \cup {NoValue}
    /\ page \in [Pages -> {"wait", "write", "stuck", "gone"}]
    /\ woken \subseteq Pages /\ written \in [Pages -> Object]

\* bytesub.go:39-62: an open page that lacks the latest value is, or once it
\* has written will be, woken: an announcement cannot fall between the read
\* of the value and that of the channel.
NoLostWakeup ==
    \A p \in Pages :
        page[p] \in {"wait", "write"} /\ announced \notin {NoValue, written[p]} => p \in woken

\* No page shows an older value of a component after a newer one; a value
\* only disappears with the updater it was a field of.
PagesNeverGoBack ==
    [][\A p \in Pages, c \in Components :
            \/ written'[p][c] >= written[p][c]
            \/ written'[p][c] = 0 /\ Parent[c] \in cancelled]_vars

\* Once the components are quiet every page that is still read shows the
\* last value of each, and nothing of the updaters that were cancelled.
PageCatchesUp ==
    <>[](\A p \in Pages :
            \/ page[p] \in {"stuck", "gone"}
            \/ /\ page[p] = "wait"
               /\ written[p] = [c \in Components |-> IF Parent[c] \in cancelled THEN 0 ELSE value[c]])

\* An update returns, whatever the pages do and the other components do.
UpdatesReturn ==
    \A f \in Components \cup Nested : f \in updating ~> f \notin updating
=============================================================================
