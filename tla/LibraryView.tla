------------------------------ MODULE LibraryView ------------------------------
(***************************************************************************)
(* The Library page.  The window's thread shows a tree of servers,         *)
(* channels and threads, the messages of the branch the user clicked, page *)
(* by page from the newest, and a rule per branch: whether it is to be     *)
(* exported.  It never touches the archive: it sends commands through the  *)
(* library_control_queue of the current runtime, whose thread answers with *)
(* pages and with snapshots of the tree, which arrive as queued signals.   *)
(*                                                                         *)
(* Meanwhile captures are imported, branches are deleted while the runtime *)
(* is stopped for it, and a new runtime starts with a queue of its own.    *)
(* Answers to a branch the user has left are told by a generation number.  *)
(*                                                                         *)
(* Definitions marked "Variant" are used by no action: each is a plausible *)
(* mistake in the definition it stands before.                             *)
(***************************************************************************)
EXTENDS Naturals, Sequences, FiniteSets, SequencesExt

CONSTANTS
    Scopes,         \* the server, its channels and threads
    Parent,         \* the scope above, Nothing above the server
    Messages,       \* records: scope, time, id
    PageSize,
    MaxGeneration,  \* bound: branches the user clicks or loses
    MaxEdits,       \* bound: rules chosen and branches deleted
    MaxCommands,    \* bound: commands in the queue of the runtime
    MaxSignals,     \* bound: answers on their way to the window
    MayFail,        \* whether the database may raise errors
    Nothing

Servers == {s \in Scopes : Parent[s] = Nothing}
Channels == {s \in Scopes \ Servers : Parent[s] \in Servers}

ASSUME LibraryConstantsOK ==
    /\ Nothing \notin Scopes \cup Messages
    /\ Parent \in [Scopes -> Scopes \cup {Nothing}]
    /\ \A s \in Scopes \ (Servers \cup Channels) : Parent[s] \in Channels
    /\ \A m \in Messages : m.scope \in Scopes \ Servers /\ {m.time, m.id} \subseteq Nat
    /\ \A m, n \in Messages : m.id = n.id => m = n
    /\ PageSize \in Nat \ {0} /\ MaxGeneration \in Nat

VARIABLES
    archive,    \* messages, the nodes of the tree, explicit rules
    runtime,    \* the runtime thread and its library_control_queue
    signals,    \* its answers on their way to the window
    tree,       \* the archive as the page knows it, and its rule combos
    view,       \* the branch that is shown
    unsaved,    \* branches whose last choice of a rule was lost
    edits       \* rules chosen and branches deleted, for the bound

vars == <<archive, runtime, signals, tree, view, unsaved, edits>>

Modes == {"INCLUDE", "EXCLUDE"}

EmptyArchive == [messages |-> {}, nodes |-> {}, rules |-> [s \in Scopes |-> "DEFAULT"]]

NoView == [selected |-> Nothing, generation |-> 0, loading |-> FALSE,
           messages |-> <<>>, hasMore |-> FALSE, button |-> FALSE,
           notice |-> TRUE, base |-> {}, menu |-> FALSE, lost |-> FALSE]

Init ==
    /\ archive = EmptyArchive
    /\ runtime = [alive |-> FALSE, queue |-> <<>>, changed |-> FALSE]
    /\ signals = <<>>
    /\ tree = [library |-> EmptyArchive, combos |-> [s \in Scopes |-> "EXCLUDE"]]
    /\ view = NoView
    /\ unsaved = {}
    /\ edits = 0

-----------------------------------------------------------------------------
(* What the runtime reads *)

Before(m, n) == m.time < n.time \/ (m.time = n.time /\ m.id < n.id)

\* Variant: the cursor is a time.
OlderVariant(m, cursor) == cursor = Nothing \/ m.time < cursor.time

Older(m, cursor) == cursor = Nothing \/ Before(m, cursor)

Direct(scope) == {m \in archive.messages : m.scope = scope}

\* A set of messages in order: in place i is the one that i - 1 are before.
Sorted(set) ==
    [i \in 1..Cardinality(set) |->
        CHOOSE m \in set : Cardinality({n \in set : Before(n, m)}) = i - 1]

\* message_page: the newest PageSize of the messages before the cursor, and
\* whether there are more.  A channel's page leaves out those of its threads.
Page(request) ==
    LET rows == {m \in Direct(request.scope) : Older(m, request.before)}
        newest == {m \in rows : Cardinality({n \in rows : Before(m, n)}) < PageSize}
    IN  [kind |-> "page", error |-> FALSE, request |-> request,
         messages |-> Sorted(newest),
         hasMore |-> Cardinality(rows) > PageSize,
         base |-> Direct(request.scope)]

PageError(request) ==
    [kind |-> "page", error |-> TRUE, request |-> request,
     messages |-> <<>>, hasMore |-> FALSE, base |-> {}]

\* Variant: the stored rule is shown as it is.
EffectiveVariant(rules) == rules

Resolved(explicit, inherited) == IF explicit = "DEFAULT" THEN inherited ELSE explicit

\* What LibraryService.snapshot makes of the rules: an explicit rule, or the
\* effective one of the scope above; EXCLUDE above the server.
Effective(rules) ==
    LET atServer(s) == Resolved(rules[s], "EXCLUDE")
        atChannel(s) == Resolved(rules[s], atServer(Parent[s]))
        atThread(s) == Resolved(rules[s], atChannel(Parent[s]))
    IN  [s \in Scopes |-> IF s \in Servers THEN atServer(s)
                          ELSE IF s \in Channels THEN atChannel(s) ELSE atThread(s)]

\* The tree has the rules of its nodes only.
Snapshot(library) ==
    [kind |-> "snapshot",
     library |-> [library EXCEPT !.rules =
                    [s \in Scopes |-> IF s \in library.nodes THEN library.rules[s]
                                     ELSE "DEFAULT"]]]

-----------------------------------------------------------------------------
(* The runtime *)

Send(signal) == Len(signals) < MaxSignals /\ signals' = Append(signals, signal)

Start ==
    /\ ~runtime.alive
    /\ runtime' = [alive |-> TRUE, queue |-> <<>>, changed |-> FALSE]
    /\ Send(Snapshot(archive))
    /\ unsaved' = unsaved \cup {runtime.queue[i].scope : i \in
                        {i \in DOMAIN runtime.queue : runtime.queue[i].kind = "rule"}}
    /\ UNCHANGED <<archive, tree, view, edits>>

\* The rest of its queue is never read.
Stop ==
    /\ runtime.alive
    /\ runtime' = [runtime EXCEPT !.alive = FALSE]
    /\ view' = [view EXCEPT !.lost = @ \/ \E i \in DOMAIN runtime.queue :
                    /\ runtime.queue[i].kind = "page"
                    /\ runtime.queue[i].generation = view.generation]
    /\ UNCHANGED <<archive, signals, tree, unsaved, edits>>

Above(s) == {s, Parent[s]} \cup IF Parent[s] = Nothing THEN {} ELSE {Parent[Parent[s]]}

\* A capture brings a message, a new one or one of long ago.
Import(m) ==
    /\ runtime.alive /\ m \notin archive.messages
    /\ archive' = [archive EXCEPT !.messages = @ \cup {m},
                                  !.nodes = @ \cup (Above(m.scope) \ {Nothing})]
    /\ Send(Snapshot(archive'))
    /\ UNCHANGED <<runtime, tree, view, unsaved, edits>>

AnswerPage ==
    /\ runtime.alive /\ runtime.queue # <<>> /\ Head(runtime.queue).kind = "page"
    /\ \/ Send(Page(Head(runtime.queue)))
       \/ MayFail /\ Send(PageError(Head(runtime.queue)))
    /\ runtime' = [runtime EXCEPT !.queue = Tail(@)]
    /\ UNCHANGED <<archive, tree, view, unsaved, edits>>

\* A rule is stored for its scope whether the scope is still there or not.
StoreRule ==
    /\ runtime.alive /\ runtime.queue # <<>> /\ Head(runtime.queue).kind = "rule"
    /\ LET command == Head(runtime.queue)
       IN  \/ /\ archive' = [archive EXCEPT !.rules[command.scope] = command.mode]
              /\ runtime' = [runtime EXCEPT !.queue = Tail(@), !.changed = TRUE]
              /\ UNCHANGED unsaved
           \/ /\ MayFail
              /\ runtime' = [runtime EXCEPT !.queue = Tail(@)]
              /\ unsaved' = unsaved \cup {command.scope} /\ UNCHANGED archive
    /\ UNCHANGED <<signals, tree, view, edits>>

\* Variant: the tree is read again only when captures arrive.
ReportVariant ==
    /\ runtime.alive /\ runtime.changed
    /\ runtime' = [runtime EXCEPT !.changed = FALSE]
    /\ UNCHANGED <<archive, signals, tree, view, unsaved, edits>>

\* The changed tree is sent; commands that come meanwhile wait.
ReportChange ==
    /\ runtime.alive /\ runtime.changed
    /\ runtime' = [runtime EXCEPT !.changed = FALSE]
    /\ Send(Snapshot(archive))
    /\ UNCHANGED <<archive, tree, view, unsaved, edits>>

\* Branch maintenance: the messages of a branch go, or its nodes and rules too.
Delete(s, whole) ==
    /\ ~runtime.alive /\ s \in archive.nodes /\ edits < MaxEdits
    /\ LET branch == {t \in Scopes : s \in Above(t)}
           left == {m \in archive.messages : m.scope \notin branch}
       IN  /\ archive' = [messages |-> left,
                          nodes |-> IF whole THEN archive.nodes \ branch ELSE archive.nodes,
                          rules |-> [t \in Scopes |->
                                       IF whole /\ t \in branch THEN "DEFAULT"
                                       ELSE archive.rules[t]]]
           /\ view' = [view EXCEPT !.base = @ \cap left]
           /\ signals' = [i \in DOMAIN signals |->
                            IF signals[i].kind = "page"
                            THEN [signals[i] EXCEPT !.base = signals[i].base \cap left]
                            ELSE signals[i]]
    /\ edits' = edits + 1
    /\ UNCHANGED <<runtime, tree, unsaved>>

-----------------------------------------------------------------------------
(* The page *)

Command(command) ==
    /\ Len(runtime.queue) < MaxCommands
    /\ runtime' = [runtime EXCEPT !.queue = Append(@, command)]

\* _request_messages, if no answer is waited for.
Request(v, before) ==
    /\ Command([kind |-> "page", scope |-> v.selected, before |-> before,
                generation |-> v.generation])
    /\ view' = [v EXCEPT !.loading = TRUE, !.notice = (before = Nothing) \/ @,
                         !.lost = ~runtime.alive]

Forgotten(v) == [v EXCEPT !.generation = @ + 1, !.messages = <<>>,
                          !.hasMore = FALSE, !.button = FALSE,
                          !.notice = TRUE, !.base = {}, !.menu = FALSE]

\* Variant: the lock of the branch that was left is inherited.
UnlockedVariant(v) == v.loading

Unlocked(v) == FALSE

\* _item_clicked
Click(s) ==
    /\ s \in tree.library.nodes /\ view.generation < MaxGeneration
    /\ LET v == [Forgotten(view) EXCEPT !.selected = s, !.loading = Unlocked(view)]
       IN  IF s \in Servers \/ v.loading
           THEN view' = v /\ UNCHANGED runtime
           ELSE Request(v, Nothing)
    /\ UNCHANGED <<archive, signals, tree, unsaved, edits>>

\* _show_context_menu selects the branch and leaves the rest as it is.
OpenMenu(s) ==
    /\ s \in tree.library.nodes /\ s # view.selected /\ view.generation < MaxGeneration
    /\ view' = [view EXCEPT !.selected = s, !.menu = TRUE]
    /\ UNCHANGED <<archive, runtime, signals, tree, unsaved, edits>>

\* The button is disabled while a page is loading.
ShowMore ==
    /\ view.button /\ view.hasMore /\ ~view.loading
    /\ view.selected \notin Servers \cup {Nothing} /\ view.messages # <<>>
    /\ Request(view, view.messages[1])
    /\ UNCHANGED <<archive, signals, tree, unsaved, edits>>

ChooseRule(s, mode) ==
    /\ s \in tree.library.nodes /\ tree.combos[s] # mode /\ edits < MaxEdits
    /\ tree' = [tree EXCEPT !.combos[s] = mode]
    /\ Command([kind |-> "rule", scope |-> s, mode |-> mode])
    /\ unsaved' = unsaved \ {s}
    /\ edits' = edits + 1
    /\ UNCHANGED <<archive, signals, view>>

Accepted(page) ==
    /\ page.request.generation = view.generation
    /\ page.request.scope = view.selected

\* set_message_page
Shown(page) ==
    LET first == page.request.before = Nothing
        known == ToSet(view.messages)
        older == Sorted(ToSet(page.messages) \ known)
        now == [view EXCEPT !.loading = FALSE, !.lost = FALSE]
    IN  IF page.error THEN [now EXCEPT !.notice = TRUE, !.button = FALSE]
        ELSE [now EXCEPT !.messages = IF first THEN page.messages ELSE older \o @,
                         !.base = IF first THEN page.base ELSE @,
                         !.hasMore = page.hasMore, !.button = page.hasMore,
                         !.notice = FALSE]

ReceivePage ==
    /\ signals # <<>> /\ Head(signals).kind = "page"
    /\ view' = IF Accepted(Head(signals)) THEN Shown(Head(signals)) ELSE view
    /\ signals' = Tail(signals)
    /\ UNCHANGED <<archive, runtime, tree, unsaved, edits>>

\* rebuild: the combos show the effective rules; a branch that is gone is left.
Rebuild(library) ==
    /\ tree' = [library |-> library, combos |-> Effective(library.rules)]
    /\ view' = IF view.selected \in library.nodes \cup {Nothing} THEN view
               ELSE [Forgotten(view) EXCEPT !.selected = Nothing]
    /\ unsaved' = {}

\* A snapshot that shows the tree as it is known is not drawn.
ReceiveSnapshot ==
    /\ signals # <<>> /\ Head(signals).kind = "snapshot"
    /\ IF Head(signals).library = tree.library THEN UNCHANGED <<tree, view, unsaved>>
       ELSE Rebuild(Head(signals).library)
    /\ signals' = Tail(signals)
    /\ UNCHANGED <<archive, runtime, edits>>

-----------------------------------------------------------------------------
RuntimeStep == AnswerPage \/ StoreRule \/ ReportChange

Receive == ReceivePage \/ ReceiveSnapshot

User ==
    \/ \E s \in Scopes : Click(s) \/ OpenMenu(s)
    \/ ShowMore
    \/ \E s \in Scopes, mode \in Modes : ChooseRule(s, mode)

Next ==
    \/ Start \/ Stop
    \/ \E m \in Messages : Import(m)
    \/ \E s \in Scopes, whole \in BOOLEAN : Delete(s, whole)
    \/ RuntimeStep \/ Receive \/ User

Spec == Init /\ [][Next]_vars

\* The runtime ticks while it lives, the window's event loop runs.
FairSpec == Spec /\ WF_vars(RuntimeStep) /\ WF_vars(Receive)

-----------------------------------------------------------------------------
(* Properties *)

Archives == [messages : SUBSET Messages, nodes : SUBSET Scopes,
             rules : [Scopes -> Modes \cup {"DEFAULT"}]]

\* Types; above all, every combo shows one of the two modes.
TypeOK ==
    /\ archive \in Archives
    /\ runtime.alive \in BOOLEAN /\ runtime.changed \in BOOLEAN
    /\ tree \in [library : Archives, combos : [Scopes -> Modes]]
    /\ view.selected \in Scopes \cup {Nothing}
    /\ view.generation \in 0..MaxGeneration + 1
    /\ ToSet(view.messages) \subseteq Messages /\ view.base \subseteq Messages
    /\ {view.loading, view.hasMore, view.button, view.notice} \subseteq BOOLEAN
    /\ unsaved \subseteq Scopes

\* The messages on the page are those of the branch the user clicked, in order
\* and each once, and none is missing between the oldest shown and what was
\* archived when the branch was opened: nor below it once the page says that
\* there are no more.  Imports, deletions, answers to branches the user left
\* and new runtimes come in between (library_service.py message_page, pages.py
\* set_message_page).  OpenMenu is another matter, see PageIsOneBranch.
WindowHasNoHoles ==
    LET shown == view.messages
    IN  ~view.menu =>
        /\ \A i \in DOMAIN shown : shown[i].scope = view.selected
        /\ \A i, j \in DOMAIN shown : i < j => Before(shown[i], shown[j])
        /\ shown # <<>> => \A m \in view.base : Before(m, shown[1]) \/ m \in ToSet(shown)
        /\ ~view.notice /\ ~view.hasMore => view.base \subseteq ToSet(shown)

\* When everything sent has arrived, every branch shows the rule that will be
\* applied to it, its own or the inherited one, unless its last choice was
\* lost: with the runtime it was sent to, or by an error of the database.
CombosTellRules ==
    runtime.alive /\ runtime.queue = <<>> /\ ~runtime.changed /\ signals = <<>> =>
        \A s \in tree.library.nodes \ unsaved :
            tree.combos[s] = Effective(archive.rules)[s]

Waiting == view.loading /\ view.selected # Nothing /\ ~view.menu /\ ~view.lost

\* A page that was asked for arrives, unless its runtime ended: the button of
\* the page does not stay disabled.
PageArrives == Waiting ~> ~Waiting

\* "Channel pages intentionally contain only direct channel messages; thread
\* messages stay inside their own tree node" (library_service.py 251): what is
\* on the page belongs to one branch.
PageIsOneBranch ==
    \A i, j \in DOMAIN view.messages : view.messages[i].scope = view.messages[j].scope
=============================================================================
