-------------------------- MODULE LibraryView_proofs --------------------------
(***************************************************************************)
(* Proofs about LibraryView for any tree of three levels, any messages and *)
(* page size, and any bounds.                                              *)
(*                                                                         *)
(* Of the window: a generation has one request at most, which waits in the *)
(* queue or among the answers and holds the lock (OneRequest); it begins a *)
(* branch or goes on where the window ends (GoesOn), and its answer covers *)
(* what the window is measured by (Covers).  So an older page joins on.    *)
(*                                                                         *)
(* Of the rules: the last snapshot on its way, or else the tree as it is   *)
(* known, has the nodes of the archive (NewestIsTrue), and a combo that    *)
(* differs from the known tree was the last one sent or is stored, or the  *)
(* tree is to be drawn again (CombosOK).                                   *)
(***************************************************************************)
EXTENDS LibraryView, FiniteSetTheorems, SequenceTheorems, TLAPS

(* Shapes *)

PageCommands == [kind : {"page"}, scope : Scopes, before : Messages \cup {Nothing},
                 generation : 0..MaxGeneration]
RuleCommands == [kind : {"rule"}, scope : Scopes, mode : Modes]

Pages == [kind : {"page"}, error : BOOLEAN, request : PageCommands,
          messages : Seq(Messages), hasMore : BOOLEAN, base : SUBSET Messages]
Snapshots == [kind : {"snapshot"}, library : Archives]

Views == [selected : Scopes \cup {Nothing}, generation : 0..MaxGeneration + 1,
          loading : BOOLEAN, messages : Seq(Messages), hasMore : BOOLEAN,
          button : BOOLEAN, notice : BOOLEAN, base : SUBSET Messages,
          menu : BOOLEAN, lost : BOOLEAN]

RuntimeOK == runtime \in [alive : BOOLEAN, queue : Seq(PageCommands \cup RuleCommands),
                          changed : BOOLEAN]
SignalsOK == signals \in Seq(Pages \cup Snapshots)
TreeOK == tree \in [library : Archives, combos : [Scopes -> Modes]]
ViewOK == view \in Views /\ (view.selected # Nothing => view.generation <= MaxGeneration)

\* A scope of the tree is there with the scopes above it.
ArchiveOK ==
    /\ archive \in Archives /\ IsFiniteSet(archive.messages)
    /\ \A s \in archive.nodes : Above(s) \ {Nothing} \subseteq archive.nodes

Types ==
    /\ ArchiveOK /\ RuntimeOK /\ SignalsOK /\ TreeOK /\ ViewOK /\ unsaved \subseteq Scopes

(* The window *)

InOrder(s) == \A i, j \in DOMAIN s : i < j => Before(s[i], s[j])

\* An answer holds what was archived before its cursor, from its oldest
\* message on, and everything when it says that there is no more.
PageOK(page, archived) ==
    page.error \/
    /\ InOrder(page.messages)
    /\ \A i \in DOMAIN page.messages :
        /\ page.messages[i].scope = page.request.scope
        /\ Older(page.messages[i], page.request.before)
    /\ page.base \subseteq archived
    /\ \A m \in page.base :
        /\ m.scope = page.request.scope
        /\ Older(m, page.request.before) =>
            \/ m \in ToSet(page.messages)
            \/ page.hasMore /\ page.messages # <<>> /\ Before(m, page.messages[1])

PagesOK ==
    \A i \in DOMAIN signals :
        signals[i].kind = "page" => PageOK(signals[i], archive.messages)

\* The window v waits for the answer to this command, and takes this answer if
\* it is still for the branch it shows.
Asked(command, v) == command.kind = "page" /\ command.generation = v.generation
Answered(signal, v) == signal.kind = "page" /\ signal.request.generation = v.generation

\* A request is the first of its branch, or goes on where the window ends.
GoesOn(request, v) ==
    ~v.menu /\ request.before # Nothing =>
        /\ request.scope = v.selected
        /\ v.messages # <<>> /\ request.before = v.messages[1]

\* No command and no answer is of a later generation than the window.
Recent(queue, answers, v) ==
    /\ \A i \in DOMAIN queue : queue[i].kind = "page" => queue[i].generation <= v.generation
    /\ \A i \in DOMAIN answers :
        answers[i].kind = "page" => answers[i].request.generation <= v.generation

\* One request at most is asked and not answered, or answered and not shown.
Asking(queue, v) ==
    \A i \in DOMAIN queue : Asked(queue[i], v) =>
        /\ v.loading /\ GoesOn(queue[i], v)
        /\ \A j \in DOMAIN queue : Asked(queue[j], v) => i = j

Covers(answer, v) ==
    ~v.menu /\ answer.request.before # Nothing /\ ~answer.error => v.base \subseteq answer.base

Answering(answers, v) ==
    \A i \in DOMAIN answers : Answered(answers[i], v) =>
        /\ v.loading /\ GoesOn(answers[i].request, v) /\ Covers(answers[i], v)
        /\ \A j \in DOMAIN answers : Answered(answers[j], v) => i = j

Apart(queue, answers, v) ==
    \A i \in DOMAIN queue, j \in DOMAIN answers : Asked(queue[i], v) => ~Answered(answers[j], v)

Parts(queue, answers, v) ==
    /\ Recent(queue, answers, v) /\ Asking(queue, v)
    /\ Answering(answers, v) /\ Apart(queue, answers, v)

OneRequest == Parts(runtime.queue, signals, view)

BaseOK ==
    /\ view.base \subseteq archive.messages
    /\ ~view.menu => \A m \in view.base : m.scope = view.selected

WindowOK == BaseOK /\ WindowHasNoHoles

(* The rules *)

\* What the page will know when every answer has arrived.
Newest(library, answers, known) ==
    \/ \E i \in DOMAIN answers :
        /\ answers[i].kind = "snapshot" /\ answers[i].library = library
        /\ \A j \in DOMAIN answers : j > i => answers[j].kind = "page"
    \/ known = library /\ \A j \in DOMAIN answers : answers[j].kind = "page"

NewestIsTrue ==
    runtime.alive => \E library \in Archives :
        /\ Newest(library, signals, tree.library)
        /\ library.nodes = archive.nodes
        /\ ~runtime.changed => library = Snapshot(archive).library

IsRule(command, s) == command.kind = "rule" /\ command.scope = s

\* This rule of a branch is the one that was sent last, or the one stored.
Told(s, mode, queue, stored) ==
    /\ \A i \in DOMAIN queue :
        /\ IsRule(queue[i], s)
        /\ \A j \in DOMAIN queue : j > i => ~IsRule(queue[j], s)
        => queue[i].mode = mode
    /\ (\A i \in DOMAIN queue : ~IsRule(queue[i], s)) =>
        s \notin stored.nodes \/ stored.rules[s] = mode

\* The tree will be drawn again.
Redrawn(answers, known) ==
    \E i \in DOMAIN answers : answers[i].kind = "snapshot" /\ answers[i].library # known

CombosOK ==
    \A s \in tree.library.nodes \ unsaved :
        tree.combos[s] # Effective(tree.library.rules)[s] =>
            \/ Redrawn(signals, tree.library)
            \/ Told(s, tree.combos[s], runtime.queue, archive)

\* The inductive invariant.
IInv == Types /\ PagesOK /\ OneRequest /\ WindowOK /\ NewestIsTrue /\ CombosOK

-----------------------------------------------------------------------------
(* Orders *)

TotalOrder(R, S) ==
    /\ \A x \in S : <<x, x>> \notin R
    /\ \A x, y, z \in S : <<x, y>> \in R /\ <<y, z>> \in R => <<x, z>> \in R
    /\ \A x, y \in S : x = y \/ <<x, y>> \in R \/ <<y, x>> \in R

Rank(R, S, x) == Cardinality({y \in S : <<y, x>> \in R})

\* In a finite total order the ranks are 0 to the number of elements less one,
\* each of one element, in the order of the elements.
LEMMA Ranks ==
    ASSUME NEW S, IsFiniteSet(S), NEW R, TotalOrder(R, S)
    PROVE  /\ Cardinality(S) \in Nat
           /\ \A x \in S : Rank(R, S, x) \in 0..(Cardinality(S) - 1)
           /\ \A x, y \in S : <<x, y>> \in R => Rank(R, S, x) < Rank(R, S, y)
           /\ \A x, y \in S : Rank(R, S, x) = Rank(R, S, y) => x = y
           /\ \A k \in 0..(Cardinality(S) - 1) : \E x \in S : Rank(R, S, x) = k
<1> USE DEF TotalOrder
<1> DEFINE below(x) == {y \in S : <<y, x>> \in R}
<1>1. Cardinality(S) \in Nat
  BY FS_CardinalityType
<1>2. \A x \in S : IsFiniteSet(below(x)) /\ Cardinality(below(x)) \in Nat
  BY FS_Subset, FS_CardinalityType
<1>3. \A x \in S : Rank(R, S, x) \in 0..(Cardinality(S) - 1)
  <2> SUFFICES ASSUME NEW x \in S
               PROVE  Rank(R, S, x) \in 0..(Cardinality(S) - 1)
    OBVIOUS
  <2>1. below(x) \in SUBSET S /\ below(x) # S
    OBVIOUS
  <2>2. Cardinality(below(x)) <= Cardinality(S) /\ Cardinality(below(x)) # Cardinality(S)
    BY <2>1, FS_Subset
  <2> QED
    BY <1>1, <1>2, <2>2 DEF Rank
<1>4. \A x, y \in S : <<x, y>> \in R => Rank(R, S, x) < Rank(R, S, y)
  <2> SUFFICES ASSUME NEW x \in S, NEW y \in S, <<x, y>> \in R
               PROVE  Rank(R, S, x) < Rank(R, S, y)
    OBVIOUS
  <2>1. below(x) \in SUBSET below(y) /\ below(x) # below(y)
    OBVIOUS
  <2>2. /\ Cardinality(below(x)) <= Cardinality(below(y))
        /\ Cardinality(below(x)) # Cardinality(below(y))
    BY <1>2, <2>1, FS_Subset
  <2> QED
    BY <1>2, <2>2 DEF Rank
<1>5. \A x, y \in S : Rank(R, S, x) = Rank(R, S, y) => x = y
  <2> SUFFICES ASSUME NEW x \in S, NEW y \in S, Rank(R, S, x) = Rank(R, S, y), x # y
               PROVE  FALSE
    OBVIOUS
  <2>1. Rank(R, S, x) < Rank(R, S, y) \/ Rank(R, S, y) < Rank(R, S, x)
    BY <1>4
  <2> QED
    BY <1>3, <2>1
<1>6. \A k \in 0..(Cardinality(S) - 1) : \E x \in S : Rank(R, S, x) = k
  <2> DEFINE T == 0..(Cardinality(S) - 1)
             f == [x \in S |-> Rank(R, S, x)]
  <2>1. f \in [S -> T]
    BY <1>3
  <2>2. f \in Injection(S, T)
    BY <1>5, <2>1 DEF Injection, IsInjective
  <2>3. IsFiniteSet(T) /\ Cardinality(T) = Cardinality(S)
    <3> DEFINE N == Cardinality(S)
    <3> HIDE DEF N
    <3>1. IsFiniteSet(0..(N - 1)) /\ Cardinality(0..(N - 1)) = N
      <4>1. N \in Nat
        BY <1>1 DEF N
      <4>2. 0 \in Int /\ N - 1 \in Int
        BY <4>1
      <4>3. /\ IsFiniteSet(0..(N - 1))
            /\ Cardinality(0..(N - 1)) = IF 0 > N - 1 THEN 0 ELSE (N - 1) - 0 + 1
        BY <4>2, FS_Interval
      <4> QED
        BY <4>1, <4>3
    <3> QED
      BY <3>1 DEF N
  <2>4. f \in Surjection(S, T)
    <3> HIDE DEF f, T
    <3> QED
      BY <2>2, <2>3, FS_Injection
  <2> QED
    BY <2>4 DEF Surjection
<1> QED
  BY <1>1, <1>3, <1>4, <1>5, <1>6

LEMMA MessageFields ==
    ASSUME NEW m \in Messages
    PROVE  m.time \in Nat /\ m.id \in Nat /\ m.scope \in Scopes /\ m.scope \notin Servers
BY LibraryConstantsOK

\* The order of the messages on a page is total and strict.
LEMMA BeforeIsAnOrder ==
    /\ \A m \in Messages : ~Before(m, m)
    /\ \A m, n, o \in Messages : Before(m, n) /\ Before(n, o) => Before(m, o)
    /\ \A m, n \in Messages : m = n \/ Before(m, n) \/ Before(n, m)
<1>1. \A m, n \in Messages : m.id = n.id => m = n
  BY LibraryConstantsOK
<1> QED
  BY <1>1, MessageFields DEF Before

\* Sorted puts every message of the set in a place of its own, in order.
LEMMA SortedInOrder ==
    ASSUME NEW S \in SUBSET Messages, IsFiniteSet(S)
    PROVE  /\ Sorted(S) \in Seq(Messages)
           /\ ToSet(Sorted(S)) = S
           /\ InOrder(Sorted(S))
           /\ S # {} => Sorted(S) # <<>>
<1> DEFINE R == {p \in S \X S : Before(p[1], p[2])}
           N == Cardinality(S)
           s == Sorted(S)
<1>1. /\ \A x, y \in S : <<x, y>> \in R <=> Before(x, y)
  OBVIOUS
<1>2. \A x \in S : Cardinality({n \in S : Before(n, x)}) = Rank(R, S, x)
  <2> SUFFICES ASSUME NEW x \in S
               PROVE  Cardinality({n \in S : Before(n, x)}) = Rank(R, S, x)
    OBVIOUS
  <2>1. {n \in S : Before(n, x)} = {n \in S : <<n, x>> \in R}
    BY <1>1
  <2> QED
    BY <2>1 DEF Rank
<1>3. /\ N \in Nat
      /\ \A x \in S : Rank(R, S, x) \in 0..(N - 1)
      /\ \A x, y \in S : <<x, y>> \in R => Rank(R, S, x) < Rank(R, S, y)
      /\ \A x, y \in S : Rank(R, S, x) = Rank(R, S, y) => x = y
      /\ \A k \in 0..(N - 1) : \E x \in S : Rank(R, S, x) = k
  <2>1. TotalOrder(R, S)
    BY <1>1, BeforeIsAnOrder DEF TotalOrder
  <2> HIDE DEF R
  <2>2. /\ Cardinality(S) \in Nat
        /\ \A x \in S : Rank(R, S, x) \in 0..(Cardinality(S) - 1)
        /\ \A x, y \in S : <<x, y>> \in R => Rank(R, S, x) < Rank(R, S, y)
        /\ \A x, y \in S : Rank(R, S, x) = Rank(R, S, y) => x = y
        /\ \A k \in 0..(Cardinality(S) - 1) : \E x \in S : Rank(R, S, x) = k
    BY <2>1, Ranks
  <2> QED
    BY <2>2
<1> HIDE DEF R
<1>4. /\ s = [i \in 1..N |-> s[i]]
      /\ \A i \in 1..N :
            s[i] = CHOOSE m \in S : Cardinality({n \in S : Before(n, m)}) = i - 1
  <2>1. s = [i \in 1..N |-> CHOOSE m \in S : Cardinality({n \in S : Before(n, m)}) = i - 1]
    BY DEF Sorted
  <2> QED
    BY <2>1
<1>5. \A i \in 1..N : s[i] \in S /\ Rank(R, S, s[i]) = i - 1
  <2> SUFFICES ASSUME NEW i \in 1..N
               PROVE  s[i] \in S /\ Rank(R, S, s[i]) = i - 1
    OBVIOUS
  <2>1. \E m \in S : Cardinality({n \in S : Before(n, m)}) = i - 1
    <3>1. i - 1 \in 0..(N - 1)
      BY <1>3
    <3> QED
      BY <1>2, <1>3, <3>1
  <2>2. s[i] \in S /\ Cardinality({n \in S : Before(n, s[i])}) = i - 1
    <3>1. s[i] = CHOOSE m \in S : Cardinality({n \in S : Before(n, m)}) = i - 1
      BY <1>4
    <3> HIDE DEF s, N
    <3> QED
      BY <2>1, <3>1, Zenon
  <2> QED
    BY <1>2, <2>2
<1>6. s \in Seq(Messages) /\ DOMAIN s = 1..N /\ Len(s) = N
  <2>1. s \in [1..N -> Messages]
    BY <1>4, <1>5
  <2> QED
    BY <1>3, <2>1, SeqDef
<1>7. ToSet(s) = S
  <2>1. \A x \in S : \E i \in 1..N : s[i] = x
    <3> SUFFICES ASSUME NEW x \in S PROVE \E i \in 1..N : s[i] = x
      OBVIOUS
    <3>1. Rank(R, S, x) + 1 \in 1..N
      BY <1>3
    <3>2. s[Rank(R, S, x) + 1] = x
      BY <1>3, <1>5, <3>1
    <3> QED
      BY <3>1, <3>2
  <2> QED
    BY <1>5, <1>6, <2>1 DEF ToSet
<1>8. InOrder(s)
  <2> SUFFICES ASSUME NEW i \in 1..N, NEW j \in 1..N, i < j
               PROVE  Before(s[i], s[j])
    BY <1>6 DEF InOrder
  <2>1. s[i] = s[j] \/ Before(s[i], s[j]) \/ Before(s[j], s[i])
    BY <1>5, BeforeIsAnOrder
  <2>2. ~Before(s[j], s[i])
    <3>1. s[i] \in S /\ s[j] \in S /\ Rank(R, S, s[i]) = i - 1 /\ Rank(R, S, s[j]) = j - 1
      BY <1>5
    <3>2. ~(Rank(R, S, s[j]) < Rank(R, S, s[i]))
      BY <1>3, <3>1
    <3> QED
      BY <1>1, <1>3, <3>1, <3>2
  <2> QED
    BY <1>5, <2>1, <2>2
<1>9. S # {} => s # <<>>
  BY <1>7 DEF ToSet
<1> QED
  BY <1>6, <1>7, <1>8, <1>9

LastPage(rows) == {m \in rows : Cardinality({n \in rows : Before(m, n)}) < PageSize}

\* The rows of a page are the newest: those left out are before all of them,
\* there is one if there are any, and none is left out when they fit.
LEMMA LastRows ==
    ASSUME NEW rows \in SUBSET Messages, IsFiniteSet(rows)
    PROVE  /\ LastPage(rows) \subseteq rows /\ IsFiniteSet(LastPage(rows))
           /\ \A m \in rows \ LastPage(rows) : \A n \in LastPage(rows) : Before(m, n)
           /\ rows # {} => LastPage(rows) # {}
           /\ Cardinality(rows) <= PageSize => LastPage(rows) = rows
<1> DEFINE R == {p \in rows \X rows : Before(p[2], p[1])}
           N == Cardinality(rows)
<1>1. \A x, y \in rows : <<x, y>> \in R <=> Before(y, x)
  OBVIOUS
<1>2. TotalOrder(R, rows)
  BY <1>1, BeforeIsAnOrder DEF TotalOrder
<1>3. \A m \in rows : Cardinality({n \in rows : Before(m, n)}) = Rank(R, rows, m)
  <2> SUFFICES ASSUME NEW m \in rows
               PROVE  Cardinality({n \in rows : Before(m, n)}) = Rank(R, rows, m)
    OBVIOUS
  <2>1. {n \in rows : Before(m, n)} = {n \in rows : <<n, m>> \in R}
    BY <1>1
  <2> QED
    BY <2>1 DEF Rank
<1> HIDE DEF R
<1>4. /\ N \in Nat
      /\ \A x \in rows : Rank(R, rows, x) \in 0..(N - 1)
      /\ \A x, y \in rows : <<x, y>> \in R => Rank(R, rows, x) < Rank(R, rows, y)
      /\ \A k \in 0..(N - 1) : \E x \in rows : Rank(R, rows, x) = k
  BY <1>2, Ranks
<1>5. \A m \in rows : m \in LastPage(rows) <=> Rank(R, rows, m) < PageSize
  BY <1>3 DEF LastPage
<1>6. PageSize \in Nat \ {0}
  BY LibraryConstantsOK
<1>7. LastPage(rows) \subseteq rows
  BY DEF LastPage
<1>8. IsFiniteSet(LastPage(rows))
  BY <1>7, FS_Subset
<1>9. \A m \in rows \ LastPage(rows) : \A n \in LastPage(rows) : Before(m, n)
  <2> SUFFICES ASSUME NEW m \in rows \ LastPage(rows), NEW n \in LastPage(rows)
               PROVE  Before(m, n)
    OBVIOUS
  <2>1. n \in rows /\ m # n
    BY <1>7
  <2>2. ~(Rank(R, rows, m) < Rank(R, rows, n))
    BY <1>4, <1>5, <1>6, <2>1
  <2>3. ~Before(n, m)
    BY <1>1, <1>4, <2>1, <2>2
  <2> QED
    BY <2>1, <2>3, BeforeIsAnOrder
<1>10. rows # {} => LastPage(rows) # {}
  <2> SUFFICES ASSUME NEW m \in rows PROVE LastPage(rows) # {}
    OBVIOUS
  <2>1. 0 \in 0..(N - 1)
    BY <1>4
  <2>2. PICK x \in rows : Rank(R, rows, x) = 0
    BY <1>4, <2>1
  <2> QED
    BY <1>5, <1>6, <2>2
<1>11. N <= PageSize => LastPage(rows) = rows
  <2> SUFFICES ASSUME N <= PageSize, NEW m \in rows PROVE m \in LastPage(rows)
    BY <1>7
  <2>1. Rank(R, rows, m) \in 0..(N - 1)
    BY <1>4
  <2>2. Rank(R, rows, m) < PageSize
    <3> HIDE DEF N
    <3> QED
      BY <1>4, <1>6, <2>1
  <2> QED
    BY <1>5, <2>2
<1> QED
  BY <1>7, <1>8, <1>9, <1>10, <1>11

\* What message_page answers, whatever the branch and the cursor.
LEMMA PageAnswers ==
    ASSUME ArchiveOK, NEW c \in PageCommands
    PROVE  /\ Page(c) \in Pages /\ PageOK(Page(c), archive.messages)
           /\ Page(c).kind = "page" /\ Page(c).request = c
           /\ Page(c).base = {m \in archive.messages : m.scope = c.scope}
<1> DEFINE base == {m \in archive.messages : m.scope = c.scope}
           rows == {m \in base : Older(m, c.before)}
           page == [kind |-> "page", error |-> FALSE, request |-> c,
                    messages |-> Sorted(LastPage(rows)),
                    hasMore |-> Cardinality(rows) > PageSize,
                    base |-> base]
<1>1. Page(c) = page
  BY DEF Page, Direct, LastPage
<1>2. /\ base \subseteq archive.messages /\ archive.messages \subseteq Messages
      /\ IsFiniteSet(archive.messages)
  BY DEF ArchiveOK, Archives
<1>3. rows \in SUBSET Messages /\ IsFiniteSet(rows)
  BY <1>2, FS_Subset
<1>4. /\ LastPage(rows) \subseteq rows /\ IsFiniteSet(LastPage(rows))
      /\ \A m \in rows \ LastPage(rows) : \A n \in LastPage(rows) : Before(m, n)
      /\ rows # {} => LastPage(rows) # {}
      /\ Cardinality(rows) <= PageSize => LastPage(rows) = rows
  <2> HIDE DEF rows
  <2> QED
    BY <1>3, LastRows
<1> DEFINE s == Sorted(LastPage(rows))
<1>5. s \in Seq(Messages) /\ ToSet(s) = LastPage(rows) /\ InOrder(s) /\ (LastPage(rows) # {} => s # <<>>)
  <2>1. LastPage(rows) \in SUBSET Messages
    BY <1>3, <1>4
  <2> HIDE DEF rows
  <2> QED
    BY <1>4, <2>1, SortedInOrder
<1>6. \A i \in DOMAIN s : s[i] \in LastPage(rows)
  BY <1>5 DEF ToSet
<1>7. Cardinality(rows) \in Nat /\ PageSize \in Nat
  BY <1>3, FS_CardinalityType, LibraryConstantsOK
<1> HIDE DEF s
<1>8. page = [kind |-> "page", error |-> FALSE, request |-> c, messages |-> s,
              hasMore |-> Cardinality(rows) > PageSize, base |-> base]
  BY DEF s
<1>9. page \in Pages
  <2>1. (Cardinality(rows) > PageSize) \in BOOLEAN
    <3> DEFINE n == Cardinality(rows)
    <3> HIDE DEF n
    <3>1. n \in Nat
      BY <1>7 DEF n
    <3>2. (n > PageSize) \in BOOLEAN
      BY <1>7, <3>1
    <3> QED
      BY <3>2 DEF n
  <2>2. base \in SUBSET Messages
    BY <1>2
  <2> HIDE DEF rows, base
  <2> QED
    BY <1>5, <1>8, <2>1, <2>2 DEF Pages
<1>10. PageOK(page, archive.messages)
  <2>1. \A i \in DOMAIN s : s[i].scope = c.scope /\ Older(s[i], c.before)
    BY <1>4, <1>6
  <2>2. \A m \in base : Older(m, c.before) =>
            m \in ToSet(s) \/ (Cardinality(rows) > PageSize /\ s # <<>> /\ Before(m, s[1]))
    <3> SUFFICES ASSUME NEW m \in base, Older(m, c.before), m \notin ToSet(s)
                 PROVE  Cardinality(rows) > PageSize /\ s # <<>> /\ Before(m, s[1])
      OBVIOUS
    <3>1. m \in rows \ LastPage(rows)
      BY <1>5
    <3>2. Cardinality(rows) > PageSize
      BY <1>4, <1>7, <3>1
    <3>3. s # <<>> /\ 1 \in DOMAIN s
      BY <1>4, <1>5, <3>1, EmptySeq, LenProperties
    <3> QED
      BY <1>4, <1>6, <3>1, <3>2, <3>3
  <2>3. /\ page.messages = s /\ page.request = c
        /\ page.hasMore = (Cardinality(rows) > PageSize) /\ page.base = base
    BY <1>8
  <2>4. \A m \in base : m.scope = c.scope /\ m \in archive.messages
    OBVIOUS
  <2>5. /\ InOrder(page.messages)
        /\ \A i \in DOMAIN page.messages :
            /\ page.messages[i].scope = page.request.scope
            /\ Older(page.messages[i], page.request.before)
    BY <1>5, <2>1, <2>3
  <2> HIDE DEF page, base, rows
  <2>6. page.base \subseteq archive.messages
    BY <2>3, <2>4
  <2>7. \A m \in page.base :
            /\ m.scope = page.request.scope
            /\ Older(m, page.request.before) =>
                \/ m \in ToSet(page.messages)
                \/ page.hasMore /\ page.messages # <<>> /\ Before(m, page.messages[1])
    BY <2>2, <2>3, <2>4
  <2> QED
    BY <2>5, <2>6, <2>7 DEF PageOK
<1> QED
  BY <1>1, <1>8, <1>9, <1>10

-----------------------------------------------------------------------------
(* Rules and the tree *)

Rules == [Scopes -> Modes \cup {"DEFAULT"}]

\* There are servers, their channels and the threads of those.
LEMMA Levels ==
    ASSUME NEW s \in Scopes
    PROVE  /\ s \in Servers => Parent[s] = Nothing
           /\ s \in Channels => Parent[s] \in Servers
           /\ s \notin Servers \cup Channels => Parent[s] \in Channels
           /\ Servers \subseteq Scopes /\ Channels \subseteq Scopes
           /\ \A c \in Channels : c \notin Servers /\ Parent[c] \in Servers
           /\ \A r \in Servers : Parent[r] = Nothing
           /\ Nothing \notin Scopes /\ s # Nothing
BY LibraryConstantsOK DEF Servers, Channels

\* The rule a branch is under is one of the two modes.
LEMMA EffectiveModes ==
    ASSUME NEW rules \in Rules
    PROVE  Effective(rules) \in [Scopes -> Modes]
<1>1. \A s \in Scopes : Resolved(rules[s], "EXCLUDE") \in Modes
  BY DEF Rules, Resolved, Modes
<1>2. \A s \in Scopes, m \in Modes : Resolved(rules[s], m) \in Modes
  BY DEF Rules, Resolved, Modes
<1>3. \A s \in Channels : Resolved(rules[s], Resolved(rules[Parent[s]], "EXCLUDE")) \in Modes
  <2> SUFFICES ASSUME NEW s \in Channels
               PROVE  Resolved(rules[s], Resolved(rules[Parent[s]], "EXCLUDE")) \in Modes
    OBVIOUS
  <2>1. s \in Scopes
    BY DEF Channels
  <2>2. Parent[s] \in Scopes
    BY <2>1, Levels
  <2>3. Resolved(rules[Parent[s]], "EXCLUDE") \in Modes
    BY <1>1, <2>2
  <2> QED
    BY <1>2, <2>1, <2>3
<1>4. \A s \in Scopes \ (Servers \cup Channels) :
        Resolved(rules[s], Resolved(rules[Parent[s]],
                                    Resolved(rules[Parent[Parent[s]]], "EXCLUDE"))) \in Modes
  <2> SUFFICES ASSUME NEW s \in Scopes \ (Servers \cup Channels)
               PROVE  Resolved(rules[s], Resolved(rules[Parent[s]],
                            Resolved(rules[Parent[Parent[s]]], "EXCLUDE"))) \in Modes
    OBVIOUS
  <2>1. s \in Scopes /\ Parent[s] \in Channels
    BY Levels
  <2>2. Resolved(rules[Parent[s]], Resolved(rules[Parent[Parent[s]]], "EXCLUDE")) \in Modes
    BY <1>3, <2>1
  <2> QED
    BY <1>2, <2>1, <2>2
<1> QED
  BY <1>1, <1>3, <1>4 DEF Effective

\* It is its own if that is explicit, and else depends on those above only.
LEMMA EffectiveRules ==
    ASSUME NEW r1 \in Rules, NEW r2 \in Rules, NEW nodes \in SUBSET Scopes,
           \A s \in nodes : Above(s) \ {Nothing} \subseteq nodes,
           \A s \in nodes : r1[s] = r2[s]
    PROVE  /\ \A s \in nodes : Effective(r1)[s] = Effective(r2)[s]
           /\ \A s \in Scopes : r1[s] \in Modes => Effective(r1)[s] = r1[s]
<1>1. \A s \in nodes : Effective(r1)[s] = Effective(r2)[s]
  <2> SUFFICES ASSUME NEW s \in nodes PROVE Effective(r1)[s] = Effective(r2)[s]
    OBVIOUS
  <2>1. r1[s] = r2[s] /\ s \in Scopes
    OBVIOUS
  <2>2. CASE s \in Servers
    BY <2>1, <2>2 DEF Effective
  <2>3. CASE s \in Channels
    <3>1. s \notin Servers /\ Parent[s] \in nodes
      BY <2>1, <2>3, Levels DEF Above
    <3> QED
      BY <2>1, <2>3, <3>1 DEF Effective
  <2>4. CASE s \notin Servers \cup Channels
    <3>1. Parent[s] \in nodes /\ Parent[Parent[s]] \in nodes
      BY <2>1, <2>4, Levels DEF Above
    <3> QED
      BY <2>1, <2>4, <3>1 DEF Effective
  <2> QED
    BY <2>2, <2>3, <2>4
<1>2. \A s \in Scopes : r1[s] \in Modes => Effective(r1)[s] = r1[s]
  <2> SUFFICES ASSUME NEW s \in Scopes, r1[s] \in Modes
               PROVE  Effective(r1)[s] = r1[s]
    OBVIOUS
  <2>1. \A m : Resolved(r1[s], m) = r1[s]
    BY DEF Resolved, Modes
  <2> QED
    BY <2>1 DEF Effective
<1> QED
  BY <1>1, <1>2

\* A snapshot has the nodes of the archive and their rules.
LEMMA SnapshotOf ==
    ASSUME NEW a \in Archives
    PROVE  /\ Snapshot(a) \in Snapshots /\ Snapshot(a).library \in Archives
           /\ Snapshot(a).kind = "snapshot"
           /\ Snapshot(a).library.nodes = a.nodes
           /\ \A s \in a.nodes : Snapshot(a).library.rules[s] = a.rules[s]
<1> DEFINE rules == [s \in Scopes |-> IF s \in a.nodes THEN a.rules[s] ELSE "DEFAULT"]
           library == [a EXCEPT !.rules = rules]
<1>1. rules \in Rules /\ (\A s \in a.nodes : rules[s] = a.rules[s])
  BY DEF Rules, Archives
<1>2. Snapshot(a) = [kind |-> "snapshot", library |-> library]
  BY DEF Snapshot
<1> HIDE DEF rules
<1>3. library \in Archives /\ library.nodes = a.nodes /\ library.rules = rules
  BY <1>1 DEF Archives, Rules
<1> HIDE DEF library
<1> QED
  BY <1>1, <1>2, <1>3 DEF Snapshots

\* Above a scope there are scopes, and what is above them.
LEMMA AboveScopes ==
    ASSUME NEW s \in Scopes
    PROVE  /\ Above(s) \subseteq Scopes \cup {Nothing} /\ s \in Above(s)
           /\ \A t \in Above(s) \ {Nothing} : Above(t) \ {Nothing} \subseteq Above(s)
<1>1. CASE s \in Servers
  BY <1>1, Levels DEF Above
<1>2. CASE s \in Channels
  BY <1>2, Levels DEF Above
<1>3. CASE s \notin Servers \cup Channels
  BY <1>3, Levels DEF Above
<1> QED
  BY <1>1, <1>2, <1>3

-----------------------------------------------------------------------------
(* Queues *)

LEMMA Appended ==
    ASSUME NEW S, NEW s \in Seq(S), NEW e \in S
    PROVE  /\ Append(s, e) \in Seq(S)
           /\ DOMAIN s = 1..Len(s) /\ Len(s) \in Nat
           /\ DOMAIN Append(s, e) = 1..(Len(s) + 1)
           /\ \A i \in 1..Len(s) : Append(s, e)[i] = s[i]
           /\ Append(s, e)[Len(s) + 1] = e
<1>1. Append(s, e) \in Seq(S) /\ Len(Append(s, e)) = Len(s) + 1
  BY AppendProperties
<1> QED
  BY <1>1, AppendProperties, LenProperties

LEMMA Taken ==
    ASSUME NEW S, NEW s \in Seq(S), s # <<>>
    PROVE  /\ Tail(s) \in Seq(S)
           /\ Head(s) = s[1] /\ s[1] \in S /\ 1 \in DOMAIN s
           /\ DOMAIN s = 1..Len(s) /\ Len(s) \in Nat
           /\ DOMAIN Tail(s) = 1..(Len(s) - 1)
           /\ \A i \in 1..(Len(s) - 1) : i + 1 \in 1..Len(s) /\ Tail(s)[i] = s[i + 1]
<1>1. /\ Head(s) \in S /\ Tail(s) \in Seq(S) /\ Len(Tail(s)) = Len(s) - 1
      /\ \A i \in 1..Len(Tail(s)) : Tail(s)[i] = s[i + 1]
  BY HeadTailProperties
<1>2. Head(s) = s[1]
  OBVIOUS
<1>3. Len(s) \in Nat \ {0} /\ DOMAIN s = 1..Len(s)
  BY EmptySeq, LenProperties
<1>4. DOMAIN Tail(s) = 1..Len(Tail(s))
  BY <1>1, LenProperties
<1> QED
  BY <1>1, <1>2, <1>3, <1>4

\* An answer is put behind the others.
LEMMA Sent ==
    ASSUME SignalsOK, NEW x \in Pages \cup Snapshots, Send(x)
    PROVE  /\ SignalsOK'
           /\ DOMAIN signals = 1..Len(signals) /\ Len(signals) \in Nat
           /\ DOMAIN signals' = 1..(Len(signals) + 1)
           /\ \A i \in 1..Len(signals) : signals'[i] = signals[i]
           /\ signals'[Len(signals) + 1] = x
<1>1. signals' = Append(signals, x)
  BY DEF Send
<1> QED
  BY <1>1, Appended DEF SignalsOK

\* The first answer is taken.
LEMMA SignalTaken ==
    ASSUME SignalsOK, signals # <<>>, signals' = Tail(signals)
    PROVE  /\ SignalsOK'
           /\ Head(signals) = signals[1] /\ 1 \in DOMAIN signals
           /\ signals[1] \in Pages \cup Snapshots
           /\ DOMAIN signals = 1..Len(signals) /\ Len(signals) \in Nat
           /\ DOMAIN signals' = 1..(Len(signals) - 1)
           /\ \A i \in 1..(Len(signals) - 1) :
                i + 1 \in 1..Len(signals) /\ signals'[i] = signals[i + 1]
BY Taken DEF SignalsOK

\* A command is put behind the others.
LEMMA Commanded ==
    ASSUME RuntimeOK, NEW c \in PageCommands \cup RuleCommands, Command(c)
    PROVE  /\ RuntimeOK'
           /\ runtime'.alive = runtime.alive /\ runtime'.changed = runtime.changed
           /\ DOMAIN runtime.queue = 1..Len(runtime.queue) /\ Len(runtime.queue) \in Nat
           /\ DOMAIN runtime'.queue = 1..(Len(runtime.queue) + 1)
           /\ \A i \in 1..Len(runtime.queue) : runtime'.queue[i] = runtime.queue[i]
           /\ runtime'.queue[Len(runtime.queue) + 1] = c
<1> DEFINE q == runtime.queue
           r == Append(q, c)
<1>1. q \in Seq(PageCommands \cup RuleCommands)
  BY DEF RuntimeOK
<1>2. /\ r \in Seq(PageCommands \cup RuleCommands)
      /\ DOMAIN q = 1..Len(q) /\ Len(q) \in Nat
      /\ DOMAIN r = 1..(Len(q) + 1)
      /\ \A i \in 1..Len(q) : r[i] = q[i]
      /\ r[Len(q) + 1] = c
  BY <1>1, Appended
<1>3. runtime' = [runtime EXCEPT !.queue = r]
  BY DEF Command
<1> HIDE DEF r
<1>4. /\ RuntimeOK' /\ runtime'.alive = runtime.alive /\ runtime'.changed = runtime.changed
      /\ runtime'.queue = r
  BY <1>2, <1>3 DEF RuntimeOK
<1> QED
  BY <1>2, <1>4

\* The first command is taken.
LEMMA CommandTaken ==
    ASSUME RuntimeOK, runtime.queue # <<>>, NEW changed \in BOOLEAN,
           runtime' = [runtime EXCEPT !.queue = Tail(runtime.queue), !.changed = changed]
    PROVE  /\ RuntimeOK'
           /\ runtime'.alive = runtime.alive /\ runtime'.changed = changed
           /\ Head(runtime.queue) = runtime.queue[1] /\ 1 \in DOMAIN runtime.queue
           /\ runtime.queue[1] \in PageCommands \cup RuleCommands
           /\ DOMAIN runtime.queue = 1..Len(runtime.queue) /\ Len(runtime.queue) \in Nat
           /\ DOMAIN runtime'.queue = 1..(Len(runtime.queue) - 1)
           /\ \A i \in 1..(Len(runtime.queue) - 1) :
                i + 1 \in 1..Len(runtime.queue) /\ runtime'.queue[i] = runtime.queue[i + 1]
<1> DEFINE q == runtime.queue
           r == Tail(q)
<1>1. q \in Seq(PageCommands \cup RuleCommands)
  BY DEF RuntimeOK
<1>2. /\ r \in Seq(PageCommands \cup RuleCommands)
      /\ Head(q) = q[1] /\ q[1] \in PageCommands \cup RuleCommands /\ 1 \in DOMAIN q
      /\ DOMAIN q = 1..Len(q) /\ Len(q) \in Nat
      /\ DOMAIN r = 1..(Len(q) - 1)
      /\ \A i \in 1..(Len(q) - 1) : i + 1 \in 1..Len(q) /\ r[i] = q[i + 1]
  BY <1>1, Taken
<1> HIDE DEF r
<1>3. runtime' = [runtime EXCEPT !.queue = r, !.changed = changed]
  BY DEF r
<1>4. /\ RuntimeOK' /\ runtime'.alive = runtime.alive /\ runtime'.changed = changed
      /\ runtime'.queue = r
  BY <1>2, <1>3 DEF RuntimeOK
<1> QED
  BY <1>2, <1>4

LEMMA Kinds ==
    /\ \A c \in PageCommands \cup RuleCommands :
        /\ c.kind = "page" => c \in PageCommands
        /\ c.kind = "rule" => c \in RuleCommands
        /\ c.kind \in {"page", "rule"}
    /\ \A x \in Pages \cup Snapshots :
        /\ x.kind = "page" => x \in Pages
        /\ x.kind = "snapshot" => x \in Snapshots
        /\ x.kind \in {"page", "snapshot"}
BY DEF PageCommands, RuleCommands, Pages, Snapshots

-----------------------------------------------------------------------------
(* The branch that is shown *)

LEMMA ForgottenView ==
    ASSUME NEW v \in Views, v.generation <= MaxGeneration
    PROVE  /\ Forgotten(v) \in Views
           /\ Forgotten(v).selected = v.selected
           /\ Forgotten(v).generation = v.generation + 1
           /\ Forgotten(v).messages = <<>> /\ Forgotten(v).base = {}
           /\ Forgotten(v).notice = TRUE /\ Forgotten(v).menu = FALSE
           /\ Forgotten(v).loading = v.loading
<1>1. v.generation + 1 \in 0..MaxGeneration + 1
  BY LibraryConstantsOK DEF Views
<1>2. <<>> \in Seq(Messages)
  BY EmptySeq
<1> QED
  BY <1>1, <1>2 DEF Forgotten, Views

\* The request of a page.
LEMMA RequestEffect ==
    ASSUME RuntimeOK, NEW v \in Views, v.selected \in Scopes, v.generation <= MaxGeneration,
           NEW before \in Messages \cup {Nothing}, Request(v, before)
    PROVE  \E c \in PageCommands :
           /\ Command(c)
           /\ c.kind = "page" /\ c.scope = v.selected /\ c.before = before
           /\ c.generation = v.generation
           /\ view' \in Views /\ view'.loading
           /\ view'.selected = v.selected /\ view'.generation = v.generation
           /\ view'.messages = v.messages /\ view'.base = v.base /\ view'.menu = v.menu
           /\ view'.hasMore = v.hasMore
           /\ view'.notice = ((before = Nothing) \/ v.notice)
<1> DEFINE c == [kind |-> "page", scope |-> v.selected, before |-> before,
                 generation |-> v.generation]
           notice == (before = Nothing) \/ v.notice
           lost == ~runtime.alive
<1>1. v.generation \in 0..MaxGeneration
  BY LibraryConstantsOK DEF Views
<1>2. c \in PageCommands
  BY <1>1 DEF PageCommands
<1>3. notice \in BOOLEAN /\ lost \in BOOLEAN
  BY Zenon
<1>4. view' = [v EXCEPT !.loading = TRUE, !.notice = notice, !.lost = lost]
  BY DEF Request
<1>5. Command(c)
  BY DEF Request
<1>6. /\ c.kind = "page" /\ c.scope = v.selected /\ c.before = before
      /\ c.generation = v.generation
  OBVIOUS
<1> HIDE DEF notice, lost, c
<1>7. /\ view' \in Views /\ view'.loading
      /\ view'.selected = v.selected /\ view'.generation = v.generation
      /\ view'.messages = v.messages /\ view'.base = v.base /\ view'.menu = v.menu
      /\ view'.hasMore = v.hasMore /\ view'.notice = notice
  BY <1>3, <1>4 DEF Views
<1> QED
  BY <1>2, <1>5, <1>6, <1>7 DEF notice

\* A click asks for the first page of its branch, or for nothing.
LEMMA ClickEffect ==
    ASSUME RuntimeOK, TreeOK, ViewOK, NEW s \in Scopes, Click(s)
    PROVE  /\ view' \in Views
           /\ view'.selected = s /\ view'.generation = view.generation + 1
           /\ view'.generation <= MaxGeneration
           /\ view'.messages = <<>> /\ view'.base = {} /\ view'.notice = TRUE
           /\ view'.menu = FALSE
           /\ \/ UNCHANGED runtime
              \/ \E c \in PageCommands :
                    /\ Command(c) /\ c.kind = "page" /\ c.before = Nothing
                    /\ c.generation = view.generation + 1 /\ view'.loading
<1> DEFINE f == Forgotten(view)
           v == [f EXCEPT !.selected = s, !.loading = FALSE]
<1>1. view \in Views /\ view.generation < MaxGeneration /\ view.generation \in Nat
  BY LibraryConstantsOK DEF ViewOK, Views, Click
<1>2. /\ f \in Views /\ f.generation = view.generation + 1
      /\ f.messages = <<>> /\ f.base = {} /\ f.notice = TRUE /\ f.menu = FALSE
  <2>1. view.generation <= MaxGeneration
    BY <1>1, LibraryConstantsOK
  <2> QED
    BY <1>1, <2>1, ForgottenView
<1>3. \/ view' = v /\ UNCHANGED runtime
      \/ Request(v, Nothing)
  BY DEF Click, Unlocked
<1> HIDE DEF f
<1>4. /\ v \in Views /\ v.generation = view.generation + 1 /\ v.selected = s
      /\ v.messages = <<>> /\ v.base = {} /\ v.notice = TRUE /\ v.menu = FALSE
  BY <1>2 DEF Views
<1>5. view.generation + 1 <= MaxGeneration
  BY <1>1, LibraryConstantsOK
<1> HIDE DEF v
<1>6. CASE view' = v /\ UNCHANGED runtime
  BY <1>4, <1>5, <1>6
<1>7. CASE Request(v, Nothing)
  <2>1. Nothing \in Messages \cup {Nothing} /\ v.selected \in Scopes /\ v.generation <= MaxGeneration
    BY <1>4, <1>5
  <2>2. PICK c \in PageCommands :
           /\ Command(c)
           /\ c.kind = "page" /\ c.scope = v.selected /\ c.before = Nothing
           /\ c.generation = v.generation
           /\ view' \in Views /\ view'.loading
           /\ view'.selected = v.selected /\ view'.generation = v.generation
           /\ view'.messages = v.messages /\ view'.base = v.base /\ view'.menu = v.menu
           /\ view'.hasMore = v.hasMore
           /\ view'.notice = ((Nothing = Nothing) \/ v.notice)
    BY <1>4, <1>7, <2>1, RequestEffect
  <2> QED
    BY <1>4, <1>5, <2>2
<1> QED
  BY <1>3, <1>6, <1>7

LEMMA OpenMenuEffect ==
    ASSUME TreeOK, ViewOK, NEW s \in Scopes, OpenMenu(s)
    PROVE  /\ view' \in Views /\ view'.menu = TRUE /\ view'.selected = s
           /\ view'.generation = view.generation /\ view'.generation <= MaxGeneration
           /\ view'.messages = view.messages /\ view'.base = view.base
           /\ view'.loading = view.loading
<1>1. view \in Views /\ view.generation < MaxGeneration /\ view.generation \in Nat
  BY LibraryConstantsOK DEF ViewOK, Views, OpenMenu
<1>2. view' = [view EXCEPT !.selected = s, !.menu = TRUE]
  BY DEF OpenMenu
<1>3. view.generation <= MaxGeneration
  BY <1>1, LibraryConstantsOK
<1> QED
  BY <1>1, <1>2, <1>3 DEF Views

\* The next page goes on where the window ends.
LEMMA ShowMoreEffect ==
    ASSUME RuntimeOK, ViewOK, ShowMore
    PROVE  \E c \in PageCommands :
           /\ Command(c)
           /\ c.kind = "page" /\ c.scope = view.selected
           /\ view.messages # <<>> /\ c.before = view.messages[1]
           /\ c.generation = view.generation /\ c.generation <= MaxGeneration
           /\ ~view.loading /\ view'.loading
           /\ view' \in Views
           /\ view'.selected = view.selected /\ view'.generation = view.generation
           /\ view'.messages = view.messages /\ view'.base = view.base
           /\ view'.menu = view.menu /\ view'.hasMore = view.hasMore
           /\ view'.notice = view.notice
<1> DEFINE before == view.messages[1]
<1>1. /\ ~view.loading /\ view.messages # <<>> /\ Request(view, before)
      /\ view.selected # Nothing
  BY DEF ShowMore
<1>2. /\ view \in Views /\ view.selected \in Scopes /\ view.generation <= MaxGeneration
      /\ view.messages \in Seq(Messages) /\ view.notice \in BOOLEAN
  BY <1>1 DEF ViewOK, Views
<1>3. before \in Messages /\ before # Nothing
  <2>1. before \in Messages
    BY <1>1, <1>2, Taken
  <2> QED
    BY <2>1, LibraryConstantsOK
<1> HIDE DEF before
<1>4. before \in Messages \cup {Nothing}
  BY <1>3
<1>5. PICK c \in PageCommands :
           /\ Command(c)
           /\ c.kind = "page" /\ c.scope = view.selected /\ c.before = before
           /\ c.generation = view.generation
           /\ view' \in Views /\ view'.loading
           /\ view'.selected = view.selected /\ view'.generation = view.generation
           /\ view'.messages = view.messages /\ view'.base = view.base /\ view'.menu = view.menu
           /\ view'.hasMore = view.hasMore
           /\ view'.notice = ((before = Nothing) \/ view.notice)
  BY <1>1, <1>2, <1>4, RequestEffect
<1>6. view'.notice = view.notice
  BY <1>2, <1>3, <1>5
<1> QED
  BY <1>1, <1>2, <1>5, <1>6 DEF before

LEMMA FiniteToSet ==
    ASSUME NEW s \in Seq(Messages)
    PROVE  IsFiniteSet(ToSet(s)) /\ ToSet(s) \in SUBSET Messages
<1>1. Len(s) \in Nat /\ s \in [1..Len(s) -> Messages] /\ DOMAIN s = 1..Len(s)
  BY LenProperties
<1>2. s \in Surjection(1..Len(s), ToSet(s))
  BY <1>1 DEF Surjection, ToSet
<1>3. IsFiniteSet(1..Len(s))
  BY <1>1, FS_Interval
<1>4. IsFiniteSet(ToSet(s))
  BY <1>2, <1>3, FS_Surjection
<1> QED
  BY <1>1, <1>4 DEF ToSet

\* What set_message_page does with an answer it takes.
LEMMA ShownEffect ==
    ASSUME ViewOK, NEW p \in Pages
    PROVE  /\ Shown(p) \in Views /\ Shown(p).loading = FALSE
           /\ Shown(p).selected = view.selected /\ Shown(p).generation = view.generation
           /\ Shown(p).menu = view.menu
           /\ p.error =>
                /\ Shown(p).messages = view.messages /\ Shown(p).base = view.base
                /\ Shown(p).notice = TRUE
           /\ ~p.error => Shown(p).hasMore = p.hasMore /\ Shown(p).notice = FALSE
           /\ ~p.error /\ p.request.before = Nothing =>
                Shown(p).messages = p.messages /\ Shown(p).base = p.base
           /\ ~p.error /\ p.request.before # Nothing =>
                /\ Shown(p).messages =
                    Sorted(ToSet(p.messages) \ ToSet(view.messages)) \o view.messages
                /\ Shown(p).base = view.base
<1> DEFINE older == Sorted(ToSet(p.messages) \ ToSet(view.messages))
           now == [view EXCEPT !.loading = FALSE, !.lost = FALSE]
           first == p.request.before = Nothing
           messages == IF first THEN p.messages ELSE older \o view.messages
           base == IF first THEN p.base ELSE view.base
<1>1. view \in Views /\ view.messages \in Seq(Messages) /\ view.base \in SUBSET Messages
  BY DEF ViewOK, Views
<1>2. /\ p.messages \in Seq(Messages) /\ p.base \in SUBSET Messages
      /\ p.hasMore \in BOOLEAN /\ p.error \in BOOLEAN
  BY DEF Pages
<1>3. older \in Seq(Messages)
  <2> DEFINE S == ToSet(p.messages) \ ToSet(view.messages)
  <2>1. IsFiniteSet(ToSet(p.messages)) /\ ToSet(p.messages) \in SUBSET Messages
    BY <1>2, FiniteToSet
  <2>2. IsFiniteSet(S) /\ S \in SUBSET Messages
    BY <2>1, FS_Subset
  <2> HIDE DEF S
  <2>3. Sorted(S) \in Seq(Messages)
    BY <2>2, SortedInOrder
  <2> QED
    BY <2>3 DEF S
<1>4. /\ now \in Views /\ now.loading = FALSE
      /\ now.selected = view.selected /\ now.generation = view.generation
      /\ now.menu = view.menu /\ now.messages = view.messages /\ now.base = view.base
  BY <1>1 DEF Views
<1>5. Shown(p) = IF p.error THEN [now EXCEPT !.notice = TRUE, !.button = FALSE]
                 ELSE [now EXCEPT !.messages = messages, !.base = base,
                                  !.hasMore = p.hasMore, !.button = p.hasMore,
                                  !.notice = FALSE]
  BY <1>4 DEF Shown
<1> HIDE DEF older, now
<1>6. messages \in Seq(Messages) /\ base \in SUBSET Messages
  BY <1>1, <1>2, <1>3, ConcatProperties
<1>7. /\ first => messages = p.messages /\ base = p.base
      /\ ~first => messages = older \o view.messages /\ base = view.base
  OBVIOUS
<1> HIDE DEF first, messages, base
<1>8. CASE p.error
  <2>1. Shown(p) = [now EXCEPT !.notice = TRUE, !.button = FALSE]
    BY <1>5, <1>8
  <2> QED
    BY <1>4, <1>8, <2>1 DEF Views
<1>9. CASE ~p.error
  <2> DEFINE shown == [now EXCEPT !.messages = messages, !.base = base,
                                  !.hasMore = p.hasMore, !.button = p.hasMore,
                                  !.notice = FALSE]
  <2>1. Shown(p) = shown
    BY <1>5, <1>9
  <2>2. /\ shown \in Views /\ shown.loading = FALSE
        /\ shown.selected = view.selected /\ shown.generation = view.generation
        /\ shown.menu = view.menu
        /\ shown.messages = messages /\ shown.base = base
        /\ shown.hasMore = p.hasMore /\ shown.notice = FALSE
    BY <1>2, <1>4, <1>6 DEF Views
  <2> HIDE DEF shown
  <2> QED
    BY <1>7, <1>9, <2>1, <2>2 DEF first, older
<1> QED
  BY <1>8, <1>9

\* A new tree takes the rules it brings, and leaves a branch that is gone.
LEMMA RebuildEffect ==
    ASSUME ViewOK, NEW library \in Archives, Rebuild(library)
    PROVE  /\ TreeOK' /\ ViewOK' /\ unsaved' = {}
           /\ tree'.library = library /\ tree'.combos = Effective(library.rules)
           /\ \/ view' = view
              \/ /\ view'.selected = Nothing /\ view'.generation = view.generation + 1
                 /\ view'.messages = <<>> /\ view'.base = {}
                 /\ view'.notice = TRUE /\ view'.menu = FALSE
<1>1. Effective(library.rules) \in [Scopes -> Modes]
  <2>1. library.rules \in Rules
    BY DEF Archives, Rules
  <2> QED
    BY <2>1, EffectiveModes
<1>2. tree' = [library |-> library, combos |-> Effective(library.rules)] /\ unsaved' = {}
  BY DEF Rebuild
<1>3. TreeOK' /\ tree'.library = library /\ tree'.combos = Effective(library.rules)
  BY <1>1, <1>2 DEF TreeOK
<1>4. CASE view.selected \in library.nodes \cup {Nothing}
  <2>1. view' = view
    BY <1>4 DEF Rebuild
  <2> QED
    BY <1>2, <1>3, <2>1 DEF ViewOK
<1>5. CASE view.selected \notin library.nodes \cup {Nothing}
  <2> DEFINE f == Forgotten(view)
  <2>1. view' = [f EXCEPT !.selected = Nothing]
    BY <1>5 DEF Rebuild
  <2>2. view \in Views /\ view.generation <= MaxGeneration
    BY <1>5 DEF ViewOK
  <2>3. /\ f \in Views /\ f.generation = view.generation + 1
        /\ f.messages = <<>> /\ f.base = {} /\ f.notice = TRUE /\ f.menu = FALSE
    BY <2>2, ForgottenView
  <2> HIDE DEF f
  <2>4. /\ view' \in Views
        /\ view'.selected = Nothing /\ view'.generation = view.generation + 1
        /\ view'.messages = <<>> /\ view'.base = {}
        /\ view'.notice = TRUE /\ view'.menu = FALSE
    BY <2>1, <2>3 DEF Views
  <2> QED
    BY <1>2, <1>3, <2>4 DEF ViewOK
<1> QED
  BY <1>4, <1>5

LEMMA StopEffect ==
    ASSUME ViewOK, RuntimeOK, Stop
    PROVE  /\ ViewOK' /\ RuntimeOK'
           /\ runtime'.queue = runtime.queue /\ runtime'.alive = FALSE
           /\ view'.selected = view.selected /\ view'.generation = view.generation
           /\ view'.messages = view.messages /\ view'.base = view.base
           /\ view'.menu = view.menu /\ view'.hasMore = view.hasMore
           /\ view'.notice = view.notice /\ view'.loading = view.loading
<1> DEFINE lost == view.lost \/ \E i \in DOMAIN runtime.queue :
                    /\ runtime.queue[i].kind = "page"
                    /\ runtime.queue[i].generation = view.generation
<1>1. lost \in BOOLEAN
  BY Zenon
<1>2. view' = [view EXCEPT !.lost = lost]
  BY DEF Stop
<1>3. runtime' = [runtime EXCEPT !.alive = FALSE]
  BY DEF Stop
<1>4. RuntimeOK' /\ runtime'.queue = runtime.queue /\ runtime'.alive = FALSE
  BY <1>3 DEF RuntimeOK
<1> HIDE DEF lost
<1> QED
  BY <1>1, <1>2, <1>4 DEF ViewOK, Views

LEMMA ImportEffect ==
    ASSUME ArchiveOK, NEW m \in Messages, Import(m)
    PROVE  /\ ArchiveOK' /\ archive.messages \subseteq archive'.messages
           /\ Snapshot(archive') \in Snapshots
           /\ Send(Snapshot(archive'))
<1> DEFINE more == archive.messages \cup {m}
           nodes == archive.nodes \cup (Above(m.scope) \ {Nothing})
<1>1. /\ archive \in Archives /\ IsFiniteSet(archive.messages)
      /\ \A s \in archive.nodes : Above(s) \ {Nothing} \subseteq archive.nodes
  BY DEF ArchiveOK
<1>2. archive' = [archive EXCEPT !.messages = more, !.nodes = nodes]
  BY DEF Import
<1>3. m.scope \in Scopes
  BY MessageFields
<1>4. IsFiniteSet(more) /\ more \in SUBSET Messages
  BY <1>1, FS_AddElement DEF Archives
<1>5. nodes \in SUBSET Scopes
  BY <1>1, <1>3, AboveScopes DEF Archives
<1>6. \A s \in nodes : Above(s) \ {Nothing} \subseteq nodes
  BY <1>1, <1>3, AboveScopes
<1> HIDE DEF more, nodes
<1>7. archive' \in Archives /\ archive'.messages = more /\ archive'.nodes = nodes
  BY <1>1, <1>2, <1>4, <1>5 DEF Archives
<1>8. ArchiveOK'
  BY <1>4, <1>6, <1>7 DEF ArchiveOK
<1>9. archive.messages \subseteq archive'.messages
  BY <1>7 DEF more
<1>10. Snapshot(archive') \in Snapshots
  BY <1>7, SnapshotOf
<1>11. Send(Snapshot(archive'))
  BY DEF Import
<1> QED
  BY <1>8, <1>9, <1>10, <1>11

\* A deletion takes messages, from the archive and from what was archived when
\* an answer was made, and nodes with all below them.
LEMMA DeleteEffect ==
    ASSUME ArchiveOK, SignalsOK, ViewOK, NEW s \in Scopes, NEW whole \in BOOLEAN,
           Delete(s, whole)
    PROVE  /\ ArchiveOK' /\ SignalsOK' /\ ViewOK'
           /\ archive'.messages \subseteq archive.messages
           /\ \A t \in archive'.nodes :
                t \in archive.nodes /\ archive'.rules[t] = archive.rules[t]
           /\ view'.base = view.base \cap archive'.messages
           /\ view'.selected = view.selected /\ view'.generation = view.generation
           /\ view'.messages = view.messages /\ view'.menu = view.menu
           /\ view'.hasMore = view.hasMore /\ view'.notice = view.notice
           /\ view'.loading = view.loading
           /\ DOMAIN signals' = DOMAIN signals
           /\ \A i \in DOMAIN signals :
                /\ signals[i].kind = "snapshot" => signals'[i] = signals[i]
                /\ signals[i].kind = "page" =>
                    /\ signals'[i] \in Pages /\ signals'[i].kind = "page"
                    /\ signals'[i].error = signals[i].error
                    /\ signals'[i].request = signals[i].request
                    /\ signals'[i].messages = signals[i].messages
                    /\ signals'[i].hasMore = signals[i].hasMore
                    /\ signals'[i].base = signals[i].base \cap archive'.messages
<1> DEFINE branch == {t \in Scopes : s \in Above(t)}
           left == {m \in archive.messages : m.scope \notin branch}
           nodes == IF whole THEN archive.nodes \ branch ELSE archive.nodes
           rules == [t \in Scopes |-> IF whole /\ t \in branch THEN "DEFAULT"
                                      ELSE archive.rules[t]]
           cut(x) == [x EXCEPT !.base = x.base \cap left]
<1>1. /\ archive \in Archives /\ IsFiniteSet(archive.messages)
      /\ \A t \in archive.nodes : Above(t) \ {Nothing} \subseteq archive.nodes
  BY DEF ArchiveOK
<1>2. /\ archive' = [messages |-> left, nodes |-> nodes, rules |-> rules]
      /\ view' = [view EXCEPT !.base = view.base \cap left]
      /\ signals' = [i \in DOMAIN signals |->
                        IF signals[i].kind = "page" THEN cut(signals[i]) ELSE signals[i]]
  BY DEF Delete
<1>3. left \subseteq archive.messages /\ left \in SUBSET Messages /\ IsFiniteSet(left)
  BY <1>1, FS_Subset DEF Archives
<1>4. rules \in Rules
  BY <1>1 DEF Rules, Archives
<1>5. \A t \in nodes : t \in archive.nodes /\ rules[t] = archive.rules[t]
  BY <1>1 DEF Archives
<1>6. \A t \in nodes : Above(t) \ {Nothing} \subseteq nodes
  <2> SUFFICES ASSUME NEW t \in nodes, NEW u \in Above(t) \ {Nothing}
               PROVE  u \in nodes
    OBVIOUS
  <2>1. u \in archive.nodes /\ t \in Scopes
    BY <1>1, <1>5 DEF Archives
  <2>2. s # Nothing /\ (s \in Above(u) => s \in Above(t))
    BY <2>1, AboveScopes, Levels
  <2> QED
    BY <2>1, <2>2
<1>7. nodes \in SUBSET Scopes
  BY <1>1, <1>5 DEF Archives
<1> HIDE DEF left, nodes, rules
<1>8. archive' \in Archives /\ archive'.messages = left /\ archive'.nodes = nodes
      /\ archive'.rules = rules
  BY <1>2, <1>3, <1>4, <1>7 DEF Archives, Rules
<1>9. ArchiveOK'
  BY <1>3, <1>6, <1>8 DEF ArchiveOK
<1>10. /\ ViewOK'
       /\ view'.base = view.base \cap left
       /\ view'.selected = view.selected /\ view'.generation = view.generation
       /\ view'.messages = view.messages /\ view'.menu = view.menu
       /\ view'.hasMore = view.hasMore /\ view'.notice = view.notice
       /\ view'.loading = view.loading
  BY <1>2 DEF ViewOK, Views
<1>11. \A x \in Pages :
            /\ cut(x) \in Pages /\ cut(x).kind = "page" /\ cut(x).error = x.error
            /\ cut(x).request = x.request /\ cut(x).messages = x.messages
            /\ cut(x).hasMore = x.hasMore /\ cut(x).base = x.base \cap left
  BY DEF Pages
<1> HIDE DEF cut
<1>12. /\ signals \in [1..Len(signals) -> Pages \cup Snapshots] /\ Len(signals) \in Nat
       /\ DOMAIN signals = 1..Len(signals)
  BY LenProperties DEF SignalsOK
<1>13. DOMAIN signals' = DOMAIN signals
  BY <1>2
<1>14. \A i \in DOMAIN signals :
        /\ signals[i] \in Pages \cup Snapshots
        /\ signals[i].kind = "page" =>
            signals[i] \in Pages /\ signals'[i] = cut(signals[i])
        /\ signals[i].kind # "page" => signals'[i] = signals[i]
  BY <1>2, <1>12, Kinds
<1>15. signals' \in [1..Len(signals) -> Pages \cup Snapshots]
  <2>1. \A i \in DOMAIN signals : signals'[i] \in Pages \cup Snapshots
    BY <1>11, <1>14
  <2>2. signals' = [i \in 1..Len(signals) |-> signals'[i]]
    BY <1>2, <1>12
  <2> QED
    BY <1>12, <2>1, <2>2
<1>16. SignalsOK'
  BY <1>12, <1>15, SeqDef DEF SignalsOK
<1>17. \A i \in DOMAIN signals :
                /\ signals[i].kind = "snapshot" => signals'[i] = signals[i]
                /\ signals[i].kind = "page" =>
                    /\ signals'[i] \in Pages /\ signals'[i].kind = "page"
                    /\ signals'[i].error = signals[i].error
                    /\ signals'[i].request = signals[i].request
                    /\ signals'[i].messages = signals[i].messages
                    /\ signals'[i].hasMore = signals[i].hasMore
                    /\ signals'[i].base = signals[i].base \cap left
  BY <1>11, <1>14
<1> QED
  BY <1>3, <1>5, <1>8, <1>9, <1>10, <1>13, <1>16, <1>17

LEMMA AnswerEffect ==
    ASSUME ArchiveOK, RuntimeOK, AnswerPage
    PROVE  /\ runtime.queue # <<>> /\ runtime.queue[1].kind = "page"
           /\ runtime' = [runtime EXCEPT !.queue = Tail(runtime.queue),
                                         !.changed = runtime.changed]
           /\ runtime.changed \in BOOLEAN
           /\ \E x \in Pages :
                /\ Send(x) /\ x.kind = "page" /\ x.request = runtime.queue[1]
                /\ PageOK(x, archive.messages)
                /\ ~x.error =>
                    x.base = {m \in archive.messages : m.scope = runtime.queue[1].scope}
<1> DEFINE q == runtime.queue
           c == Head(q)
<1>1. q \in Seq(PageCommands \cup RuleCommands) /\ q # <<>> /\ c.kind = "page"
  BY DEF RuntimeOK, AnswerPage
<1>2. c = q[1] /\ c \in PageCommands
  BY <1>1, Taken, Kinds
<1>3. runtime' = [runtime EXCEPT !.queue = Tail(q), !.changed = runtime.changed]
      /\ runtime.changed \in BOOLEAN
  <2>1. runtime' = [runtime EXCEPT !.queue = Tail(q)]
    BY DEF AnswerPage
  <2> QED
    BY <2>1 DEF RuntimeOK
<1>4. Send(Page(c)) \/ Send(PageError(c))
  BY DEF AnswerPage
<1> HIDE DEF c
<1>5. CASE Send(Page(c))
  <2>1. /\ Page(c) \in Pages /\ PageOK(Page(c), archive.messages)
        /\ Page(c).kind = "page" /\ Page(c).request = c
        /\ Page(c).base = {m \in archive.messages : m.scope = c.scope}
    BY <1>2, PageAnswers
  <2> QED
    BY <1>1, <1>2, <1>3, <1>5, <2>1
<1>6. CASE Send(PageError(c))
  <2>1. <<>> \in Seq(Messages)
    BY EmptySeq
  <2>2. /\ PageError(c) \in Pages /\ PageError(c).error = TRUE
        /\ PageError(c).kind = "page" /\ PageError(c).request = c
    BY <1>2, <2>1 DEF PageError, Pages
  <2>3. PageOK(PageError(c), archive.messages)
    BY <2>2 DEF PageOK
  <2> QED
    BY <1>1, <1>2, <1>3, <1>6, <2>2, <2>3
<1> QED
  BY <1>4, <1>5, <1>6

LEMMA StoreEffect ==
    ASSUME ArchiveOK, RuntimeOK, StoreRule
    PROVE  /\ runtime.queue # <<>> /\ runtime.queue[1] \in RuleCommands
           /\ runtime.queue[1].kind = "rule" /\ runtime.alive
           /\ ArchiveOK' /\ archive'.messages = archive.messages
           /\ archive'.nodes = archive.nodes
           /\ \/ /\ archive'.rules = [archive.rules EXCEPT ![runtime.queue[1].scope] =
                                        runtime.queue[1].mode]
                 /\ runtime' = [runtime EXCEPT !.queue = Tail(runtime.queue), !.changed = TRUE]
                 /\ unsaved' = unsaved
              \/ /\ archive' = archive
                 /\ runtime' = [runtime EXCEPT !.queue = Tail(runtime.queue),
                                               !.changed = runtime.changed]
                 /\ runtime.changed \in BOOLEAN
                 /\ unsaved' = unsaved \cup {runtime.queue[1].scope}
<1> DEFINE q == runtime.queue
           c == Head(q)
<1>1. q \in Seq(PageCommands \cup RuleCommands) /\ q # <<>> /\ c.kind = "rule" /\ runtime.alive
  BY DEF RuntimeOK, StoreRule
<1>2. c = q[1] /\ c \in RuleCommands
  BY <1>1, Taken, Kinds
<1>3. \/ /\ archive' = [archive EXCEPT !.rules[c.scope] = c.mode]
         /\ runtime' = [runtime EXCEPT !.queue = Tail(q), !.changed = TRUE]
         /\ unsaved' = unsaved
      \/ /\ archive' = archive
         /\ runtime' = [runtime EXCEPT !.queue = Tail(q)]
         /\ unsaved' = unsaved \cup {c.scope}
  BY DEF StoreRule
<1>4. c.scope \in Scopes /\ c.mode \in Modes
  BY <1>2 DEF RuleCommands
<1>5. archive \in Archives /\ archive.rules \in Rules
  BY DEF ArchiveOK, Archives, Rules
<1> HIDE DEF c
<1>6. CASE /\ archive' = [archive EXCEPT !.rules[c.scope] = c.mode]
           /\ runtime' = [runtime EXCEPT !.queue = Tail(q), !.changed = TRUE]
           /\ unsaved' = unsaved
  <2> DEFINE rules == [archive.rules EXCEPT ![c.scope] = c.mode]
  <2>1. rules \in Rules
    BY <1>4, <1>5 DEF Rules
  <2>2. archive' = [archive EXCEPT !.rules = rules]
    BY <1>6
  <2> HIDE DEF rules
  <2>3. archive' \in Archives /\ archive'.messages = archive.messages
        /\ archive'.nodes = archive.nodes /\ archive'.rules = rules
    BY <1>5, <2>1, <2>2 DEF Archives, Rules
  <2>4. ArchiveOK'
    BY <2>3 DEF ArchiveOK
  <2> QED
    BY <1>1, <1>2, <1>6, <2>3, <2>4 DEF rules
<1>7. CASE /\ archive' = archive
           /\ runtime' = [runtime EXCEPT !.queue = Tail(q)]
           /\ unsaved' = unsaved \cup {c.scope}
  <2>1. runtime' = [runtime EXCEPT !.queue = Tail(q), !.changed = runtime.changed]
        /\ runtime.changed \in BOOLEAN
    BY <1>7 DEF RuntimeOK
  <2>2. ArchiveOK'
    BY <1>7 DEF ArchiveOK
  <2> QED
    BY <1>1, <1>2, <1>7, <2>1, <2>2
<1> QED
  BY <1>3, <1>6, <1>7

LEMMA TypesInit == Init => Types
<1> SUFFICES ASSUME Init PROVE Types
  OBVIOUS
<1>1. ArchiveOK /\ EmptyArchive \in Archives
  BY FS_EmptySet DEF Init, ArchiveOK, EmptyArchive, Archives
<1>2. RuntimeOK
  <2>1. <<>> \in Seq(PageCommands \cup RuleCommands)
    BY EmptySeq
  <2> QED
    BY <2>1 DEF Init, RuntimeOK
<1>3. SignalsOK
  BY EmptySeq DEF Init, SignalsOK
<1>4. TreeOK
  BY <1>1 DEF Init, TreeOK, Modes
<1>5. ViewOK
  <2>1. <<>> \in Seq(Messages) /\ 0 \in 0..MaxGeneration + 1
    BY EmptySeq, LibraryConstantsOK
  <2> QED
    BY <2>1 DEF Init, ViewOK, Views, NoView
<1> QED
  BY <1>1, <1>2, <1>3, <1>4, <1>5 DEF Types, Init

LEMMA TypesStep == ASSUME Types, [Next]_vars PROVE Types'
<1> USE DEF Types
<1>1. CASE Start
  <2>1. archive \in Archives
    BY DEF ArchiveOK
  <2>2. SignalsOK'
    BY <1>1, <2>1, SnapshotOf, Sent DEF Start
  <2>3. RuntimeOK'
    <3>1. <<>> \in Seq(PageCommands \cup RuleCommands)
      BY EmptySeq
    <3> QED
      BY <1>1, <3>1 DEF Start, RuntimeOK
  <2>4. unsaved' \subseteq Scopes
    <3> DEFINE q == runtime.queue
               rules == {i \in DOMAIN q : q[i].kind = "rule"}
    <3>1. \A i \in rules : q[i].scope \in Scopes
      <4>1. q \in Seq(PageCommands \cup RuleCommands)
        BY DEF RuntimeOK
      <4>2. \A i \in DOMAIN q : q[i] \in PageCommands \cup RuleCommands
        BY <4>1, LenProperties, ElementOfSeq
      <4> QED
        BY <4>2, Kinds DEF RuleCommands
    <3>2. unsaved' = unsaved \cup {q[i].scope : i \in rules}
      BY <1>1 DEF Start
    <3> QED
      BY <3>1, <3>2
  <2>5. ArchiveOK' /\ TreeOK' /\ ViewOK'
    BY <1>1 DEF Start, ArchiveOK, TreeOK, ViewOK
  <2> QED
    BY <2>2, <2>3, <2>4, <2>5
<1>2. CASE Stop
  <2>1. ViewOK' /\ RuntimeOK'
    BY <1>2, StopEffect
  <2> QED
    BY <1>2, <2>1 DEF Stop, ArchiveOK, SignalsOK, TreeOK
<1>3. ASSUME NEW m \in Messages, Import(m) PROVE Types'
  <2>1. ArchiveOK' /\ SignalsOK'
    BY <1>3, ImportEffect, Sent
  <2> QED
    BY <1>3, <2>1 DEF Import, RuntimeOK, TreeOK, ViewOK
<1>4. ASSUME NEW s \in Scopes, NEW whole \in BOOLEAN, Delete(s, whole) PROVE Types'
  <2>1. ArchiveOK' /\ SignalsOK' /\ ViewOK'
    BY <1>4, DeleteEffect
  <2> QED
    BY <1>4, <2>1 DEF Delete, RuntimeOK, TreeOK
<1>5. CASE AnswerPage
  <2>1. RuntimeOK'
    BY <1>5, AnswerEffect, CommandTaken
  <2>2. SignalsOK'
    BY <1>5, AnswerEffect, Sent
  <2> QED
    BY <1>5, <2>1, <2>2 DEF AnswerPage, ArchiveOK, TreeOK, ViewOK
<1>6. CASE StoreRule
  <2>1. ArchiveOK'
    BY <1>6, StoreEffect
  <2>2. RuntimeOK'
    BY <1>6, StoreEffect, CommandTaken
  <2>3. unsaved' \subseteq Scopes
    BY <1>6, StoreEffect DEF RuleCommands
  <2> QED
    BY <1>6, <2>1, <2>2, <2>3 DEF StoreRule, SignalsOK, TreeOK, ViewOK
<1>7. CASE ReportChange
  <2>1. archive \in Archives
    BY DEF ArchiveOK
  <2>2. SignalsOK'
    BY <1>7, <2>1, SnapshotOf, Sent DEF ReportChange
  <2> QED
    BY <1>7, <2>2 DEF ReportChange, ArchiveOK, RuntimeOK, TreeOK, ViewOK
<1>8. CASE ReceivePage
  <2>1. signals[1] \in Pages /\ Head(signals) = signals[1] /\ SignalsOK'
    BY <1>8, SignalTaken, Kinds DEF ReceivePage
  <2>2. ViewOK'
    <3>1. view' = view \/ view' = Shown(signals[1])
      BY <1>8, <2>1 DEF ReceivePage
    <3> QED
      BY <2>1, <3>1, ShownEffect DEF ViewOK
  <2> QED
    BY <1>8, <2>1, <2>2 DEF ReceivePage, ArchiveOK, RuntimeOK, TreeOK
<1>9. CASE ReceiveSnapshot
  <2>1. signals[1].library \in Archives /\ Head(signals) = signals[1] /\ SignalsOK'
    BY <1>9, SignalTaken, Kinds DEF ReceiveSnapshot, Snapshots
  <2>2. UNCHANGED <<tree, view, unsaved>> \/ Rebuild(signals[1].library)
    BY <1>9, <2>1 DEF ReceiveSnapshot
  <2>3. TreeOK' /\ ViewOK' /\ unsaved' \subseteq Scopes
    BY <2>1, <2>2, RebuildEffect DEF TreeOK, ViewOK
  <2> QED
    BY <1>9, <2>1, <2>3 DEF ReceiveSnapshot, ArchiveOK, RuntimeOK
<1>10. ASSUME NEW s \in Scopes, Click(s) PROVE Types'
  <2>1. ViewOK'
    BY <1>10, ClickEffect DEF ViewOK
  <2>2. RuntimeOK'
    BY <1>10, ClickEffect, Commanded DEF RuntimeOK
  <2> QED
    BY <1>10, <2>1, <2>2 DEF Click, ArchiveOK, SignalsOK, TreeOK
<1>11. ASSUME NEW s \in Scopes, OpenMenu(s) PROVE Types'
  <2>1. ViewOK'
    BY <1>11, OpenMenuEffect DEF ViewOK
  <2> QED
    BY <1>11, <2>1 DEF OpenMenu, ArchiveOK, RuntimeOK, SignalsOK, TreeOK
<1>12. CASE ShowMore
  <2>1. PICK c \in PageCommands :
           /\ Command(c)
           /\ c.generation = view.generation /\ c.generation <= MaxGeneration
           /\ view' \in Views /\ view'.generation = view.generation
    BY <1>12, ShowMoreEffect
  <2>2. RuntimeOK' /\ ViewOK'
    BY <2>1, Commanded DEF ViewOK
  <2> QED
    BY <1>12, <2>2 DEF ShowMore, ArchiveOK, SignalsOK, TreeOK
<1>13. ASSUME NEW s \in Scopes, NEW mode \in Modes, ChooseRule(s, mode) PROVE Types'
  <2> DEFINE c == [kind |-> "rule", scope |-> s, mode |-> mode]
  <2>1. c \in PageCommands \cup RuleCommands /\ Command(c)
    BY <1>13 DEF RuleCommands, ChooseRule
  <2>2. RuntimeOK'
    BY <2>1, Commanded
  <2>3. TreeOK'
    BY <1>13 DEF ChooseRule, TreeOK
  <2> QED
    BY <1>13, <2>2, <2>3 DEF ChooseRule, ArchiveOK, SignalsOK, ViewOK
<1>14. CASE UNCHANGED vars
  BY <1>14 DEF vars, ArchiveOK, RuntimeOK, SignalsOK, TreeOK, ViewOK
<1> QED
  BY <1>1, <1>2, <1>3, <1>4, <1>5, <1>6, <1>7, <1>8, <1>9, <1>10, <1>11, <1>12, <1>13, <1>14
  DEF Next, RuntimeStep, Receive, User

-----------------------------------------------------------------------------
(* The answers *)

LEMMA PagesInit == Init => PagesOK
<1> SUFFICES ASSUME Init PROVE PagesOK
  OBVIOUS
<1>1. signals = <<>>
  BY DEF Init
<1>2. DOMAIN signals = {}
  BY <1>1
<1> QED
  BY <1>2 DEF PagesOK

LEMMA PagesSent ==
    ASSUME SignalsOK, PagesOK, archive.messages \subseteq archive'.messages,
           NEW x \in Pages \cup Snapshots, Send(x),
           x.kind = "page" => PageOK(x, archive'.messages)
    PROVE  PagesOK'
<1>1. /\ DOMAIN signals = 1..Len(signals) /\ Len(signals) \in Nat
      /\ DOMAIN signals' = 1..(Len(signals) + 1)
      /\ \A i \in 1..Len(signals) : signals'[i] = signals[i]
      /\ signals'[Len(signals) + 1] = x
  BY Sent
<1> SUFFICES ASSUME NEW i \in DOMAIN signals', signals'[i].kind = "page"
             PROVE  PageOK(signals'[i], archive'.messages)
  BY DEF PagesOK
<1>2. CASE i = Len(signals) + 1
  BY <1>1, <1>2
<1>3. CASE i # Len(signals) + 1
  <2>1. i \in DOMAIN signals /\ signals'[i] = signals[i]
    BY <1>1, <1>3
  <2>2. PageOK(signals[i], archive.messages)
    BY <2>1 DEF PagesOK
  <2> DEFINE p == signals[i]
             a == archive.messages
             b == archive'.messages
  <2> HIDE DEF p, a, b
  <2>3. PageOK(p, a) /\ a \subseteq b => PageOK(p, b)
    BY DEF PageOK
  <2> QED
    BY <2>1, <2>2, <2>3 DEF p, a, b
<1> QED
  BY <1>2, <1>3

LEMMA PagesStep == ASSUME Types, PagesOK, [Next]_vars PROVE PagesOK'
<1> USE DEF Types
<1>0. archive \in Archives /\ \A a \in Archives : Snapshot(a) \in Snapshots /\ Snapshot(a).kind # "page"
  BY SnapshotOf DEF ArchiveOK
<1>1. CASE Start
  BY <1>0, <1>1, PagesSent DEF Start
<1>2. CASE Stop
  BY <1>2 DEF Stop, PagesOK
<1>3. ASSUME NEW m \in Messages, Import(m) PROVE PagesOK'
  <2>1. /\ archive.messages \subseteq archive'.messages /\ archive' \in Archives
        /\ Send(Snapshot(archive'))
    BY <1>3, ImportEffect DEF ArchiveOK
  <2>2. Snapshot(archive') \in Pages \cup Snapshots /\ Snapshot(archive').kind # "page"
    BY <1>0, <2>1
  <2> QED
    BY <2>1, <2>2, PagesSent
<1>4. ASSUME NEW s \in Scopes, NEW whole \in BOOLEAN, Delete(s, whole) PROVE PagesOK'
  <2>1. /\ DOMAIN signals' = DOMAIN signals
        /\ \A i \in DOMAIN signals :
            /\ signals[i].kind = "snapshot" => signals'[i] = signals[i]
            /\ signals[i].kind = "page" =>
                /\ signals'[i].error = signals[i].error
                /\ signals'[i].request = signals[i].request
                /\ signals'[i].messages = signals[i].messages
                /\ signals'[i].hasMore = signals[i].hasMore
                /\ signals'[i].base = signals[i].base \cap archive'.messages
    BY <1>4, DeleteEffect
  <2> SUFFICES ASSUME NEW i \in DOMAIN signals', signals'[i].kind = "page"
               PROVE  PageOK(signals'[i], archive'.messages)
    BY DEF PagesOK
  <2> DEFINE p == signals[i]
             q == signals'[i]
             a == archive'.messages
  <2>2. signals[i] \in Pages \cup Snapshots
    BY <2>1, LenProperties, ElementOfSeq DEF SignalsOK
  <2>3. p.kind = "page"
    BY <2>1, <2>2, Kinds
  <2>4. PageOK(p, archive.messages)
    BY <2>1, <2>3 DEF PagesOK
  <2>5. /\ q.error = p.error /\ q.request = p.request /\ q.messages = p.messages
        /\ q.hasMore = p.hasMore /\ q.base = p.base \cap a
    BY <2>1, <2>3
  <2> HIDE DEF p, q, a
  <2>6. PageOK(q, a)
    BY <2>4, <2>5 DEF PageOK
  <2> QED
    BY <2>6 DEF q, a
<1>5. CASE AnswerPage
  <2>1. PICK x \in Pages : Send(x) /\ PageOK(x, archive.messages)
    BY <1>5, AnswerEffect
  <2>2. archive' = archive
    BY <1>5 DEF AnswerPage
  <2> QED
    BY <2>1, <2>2, PagesSent
<1>6. CASE StoreRule
  <2>1. archive'.messages = archive.messages /\ signals' = signals
    BY <1>6, StoreEffect DEF StoreRule
  <2> QED
    BY <2>1 DEF PagesOK
<1>7. CASE ReportChange
  BY <1>0, <1>7, PagesSent DEF ReportChange
<1>8. CASE Receive
  <2>1. signals # <<>> /\ signals' = Tail(signals) /\ archive' = archive
    BY <1>8 DEF Receive, ReceivePage, ReceiveSnapshot
  <2>2. /\ DOMAIN signals = 1..Len(signals) /\ Len(signals) \in Nat
        /\ DOMAIN signals' = 1..(Len(signals) - 1)
        /\ \A i \in 1..(Len(signals) - 1) :
             i + 1 \in 1..Len(signals) /\ signals'[i] = signals[i + 1]
    BY <2>1, SignalTaken
  <2> QED
    BY <2>1, <2>2 DEF PagesOK
<1>9. CASE UNCHANGED <<archive, signals>>
  BY <1>9 DEF PagesOK
<1>10. User \/ UNCHANGED vars => UNCHANGED <<archive, signals>>
  BY DEF vars, User, Click, OpenMenu, ShowMore, ChooseRule
<1> QED
  BY <1>1, <1>2, <1>3, <1>4, <1>5, <1>6, <1>7, <1>8, <1>9, <1>10 DEF Next, RuntimeStep

\* Forgetting a branch outdates all that was asked for it.
LEMMA NewGeneration ==
    ASSUME Types, OneRequest, NEW v, v.generation = view.generation + 1
    PROVE  /\ \A i \in DOMAIN runtime.queue : ~Asked(runtime.queue[i], v)
           /\ \A i \in DOMAIN signals : ~Answered(signals[i], v)
           /\ Recent(runtime.queue, signals, v)
<1>1. view.generation \in Nat
  BY LibraryConstantsOK DEF Types, ViewOK, Views
<1>2. \A i \in DOMAIN runtime.queue : runtime.queue[i] \in PageCommands \cup RuleCommands
  <2>1. runtime.queue \in Seq(PageCommands \cup RuleCommands)
    BY DEF Types, RuntimeOK
  <2> QED
    BY <2>1, LenProperties, ElementOfSeq
<1>3. \A i \in DOMAIN signals : signals[i] \in Pages \cup Snapshots
  BY LenProperties, ElementOfSeq DEF Types, SignalsOK
<1>4. \A i \in DOMAIN runtime.queue : runtime.queue[i].kind = "page" =>
        runtime.queue[i].generation \in Nat /\ runtime.queue[i].generation <= view.generation
  <2>1. \A c \in PageCommands : c.generation \in Nat
    BY LibraryConstantsOK DEF PageCommands
  <2> QED
    BY <1>2, <2>1, Kinds DEF OneRequest, Parts, Recent
<1>5. \A i \in DOMAIN signals : signals[i].kind = "page" =>
        /\ signals[i].request.generation \in Nat
        /\ signals[i].request.generation <= view.generation
  <2>1. \A x \in Pages : x.request.generation \in Nat
    BY LibraryConstantsOK DEF Pages, PageCommands
  <2> QED
    BY <1>3, <2>1, Kinds DEF OneRequest, Parts, Recent
<1> QED
  BY <1>1, <1>4, <1>5 DEF Asked, Answered, Recent

-----------------------------------------------------------------------------
(* One request *)

\* Less is asked or answered.
LEMMA PartsSent ==
    ASSUME SignalsOK, NEW queue, NEW v, Parts(queue, signals, v),
           NEW x \in Snapshots, Send(x)
    PROVE  Parts(queue, signals', v)
<1>1. /\ DOMAIN signals = 1..Len(signals) /\ Len(signals) \in Nat
      /\ DOMAIN signals' = 1..(Len(signals) + 1)
      /\ \A i \in 1..Len(signals) : signals'[i] = signals[i]
      /\ signals'[Len(signals) + 1] = x
  BY Sent
<1>2. x.kind # "page"
  BY DEF Snapshots
<1>3. \A i \in DOMAIN signals' : signals'[i].kind = "page" =>
        i \in DOMAIN signals /\ signals'[i] = signals[i]
  <2> SUFFICES ASSUME NEW i \in DOMAIN signals', signals'[i].kind = "page"
               PROVE  i \in DOMAIN signals /\ signals'[i] = signals[i]
    OBVIOUS
  <2>1. i # Len(signals) + 1
    BY <1>1, <1>2
  <2> QED
    BY <1>1, <2>1
<1>4. Recent(queue, signals', v)
  BY <1>3 DEF Parts, Recent
<1>5. Answering(signals', v)
  BY <1>3 DEF Parts, Answering, Answered
<1>6. Apart(queue, signals', v)
  BY <1>3 DEF Parts, Apart, Answered
<1> QED
  BY <1>4, <1>5, <1>6 DEF Parts

\* The first of the answers is taken.
LEMMA PartsReceived ==
    ASSUME SignalsOK, NEW queue, NEW v, Parts(queue, signals, v),
           signals # <<>>, signals' = Tail(signals)
    PROVE  /\ Parts(queue, signals', v)
           /\ Answered(signals[1], v) =>
                /\ \A i \in DOMAIN queue : ~Asked(queue[i], v)
                /\ \A i \in DOMAIN signals' : ~Answered(signals'[i], v)
<1>1. /\ DOMAIN signals = 1..Len(signals) /\ Len(signals) \in Nat /\ 1 \in DOMAIN signals
      /\ DOMAIN signals' = 1..(Len(signals) - 1)
      /\ \A i \in 1..(Len(signals) - 1) :
           i + 1 \in 1..Len(signals) /\ signals'[i] = signals[i + 1]
  BY SignalTaken
<1>2. Recent(queue, signals', v)
  BY <1>1 DEF Parts, Recent
<1>3. Answering(signals', v)
  <2> SUFFICES ASSUME NEW i \in DOMAIN signals', Answered(signals'[i], v)
               PROVE  /\ v.loading /\ GoesOn(signals'[i].request, v) /\ Covers(signals'[i], v)
                      /\ \A j \in DOMAIN signals' : Answered(signals'[j], v) => i = j
    BY DEF Answering
  <2>1. i + 1 \in DOMAIN signals /\ signals'[i] = signals[i + 1] /\ i \in Nat
    BY <1>1
  <2>2. /\ v.loading /\ GoesOn(signals'[i].request, v) /\ Covers(signals'[i], v)
        /\ \A j \in DOMAIN signals : Answered(signals[j], v) => i + 1 = j
    BY <2>1 DEF Parts, Answering
  <2>3. ASSUME NEW j \in DOMAIN signals', Answered(signals'[j], v) PROVE i = j
    <3>1. j + 1 \in DOMAIN signals /\ signals'[j] = signals[j + 1] /\ j \in Nat
      BY <1>1
    <3>2. i + 1 = j + 1
      BY <2>2, <2>3, <3>1
    <3> QED
      BY <2>1, <3>1, <3>2
  <2> QED
    BY <2>2, <2>3
<1>4. Apart(queue, signals', v)
  BY <1>1 DEF Parts, Apart
<1>5. ASSUME Answered(signals[1], v)
      PROVE  /\ \A i \in DOMAIN queue : ~Asked(queue[i], v)
             /\ \A i \in DOMAIN signals' : ~Answered(signals'[i], v)
  <2>1. \A i \in DOMAIN queue : ~Asked(queue[i], v)
    BY <1>1, <1>5 DEF Parts, Apart
  <2>2. ASSUME NEW i \in DOMAIN signals', Answered(signals'[i], v) PROVE FALSE
    <3>1. i + 1 \in DOMAIN signals /\ signals'[i] = signals[i + 1] /\ i \in 1..(Len(signals) - 1)
      BY <1>1
    <3>2. 1 = i + 1
      BY <1>1, <1>5, <2>2, <3>1 DEF Parts, Answering
    <3> QED
      BY <1>1, <3>1, <3>2
  <2> QED
    BY <2>1, <2>2
<1> QED
  BY <1>2, <1>3, <1>4, <1>5 DEF Parts

\* The first of the commands is taken.
LEMMA PartsTaken ==
    ASSUME NEW queue, NEW rest, NEW answers, NEW v, Parts(queue, answers, v),
           NEW n \in Nat \ {0}, DOMAIN queue = 1..n, DOMAIN rest = 1..(n - 1),
           \A i \in 1..(n - 1) : rest[i] = queue[i + 1]
    PROVE  /\ Parts(rest, answers, v)
           /\ Asked(queue[1], v) => \A i \in DOMAIN rest : ~Asked(rest[i], v)
<1>1. \A i \in 1..(n - 1) : i + 1 \in 1..n /\ 1 # i + 1
  OBVIOUS
<1>2. Recent(rest, answers, v)
  BY <1>1 DEF Parts, Recent
<1>3. Asking(rest, v)
  <2> SUFFICES ASSUME NEW i \in DOMAIN rest, Asked(rest[i], v)
               PROVE  /\ v.loading /\ GoesOn(rest[i], v)
                      /\ \A j \in DOMAIN rest : Asked(rest[j], v) => i = j
    BY DEF Asking
  <2>1. /\ v.loading /\ GoesOn(rest[i], v)
        /\ \A j \in DOMAIN queue : Asked(queue[j], v) => i + 1 = j
    BY <1>1 DEF Parts, Asking
  <2>2. ASSUME NEW j \in DOMAIN rest, Asked(rest[j], v) PROVE i = j
    <3>1. i + 1 = j + 1
      BY <1>1, <2>1, <2>2
    <3> QED
      BY <3>1
  <2> QED
    BY <2>1, <2>2
<1>4. Apart(rest, answers, v)
  BY <1>1 DEF Parts, Apart
<1>5. ASSUME Asked(queue[1], v), NEW i \in DOMAIN rest, Asked(rest[i], v) PROVE FALSE
  BY <1>1, <1>5 DEF Parts, Asking
<1> QED
  BY <1>2, <1>3, <1>4, <1>5 DEF Parts

\* The window changes nothing that the requests depend on.
LEMMA PartsKept ==
    ASSUME NEW queue, NEW answers, NEW v, NEW w, Parts(queue, answers, v),
           w.generation = v.generation, w.selected = v.selected, w.messages = v.messages,
           w.menu = v.menu, w.loading = v.loading, w.base = v.base
    PROVE  Parts(queue, answers, w)
BY DEF Parts, Recent, Asking, Answering, Apart, Asked, Answered, GoesOn, Covers

\* Nothing is asked or answered.
LEMMA PartsNone ==
    ASSUME NEW queue, NEW answers, NEW v, Recent(queue, answers, v),
           \A i \in DOMAIN queue : ~Asked(queue[i], v),
           \A i \in DOMAIN answers : ~Answered(answers[i], v)
    PROVE  Parts(queue, answers, v)
BY DEF Parts, Asking, Answering, Apart

\* A first request, or one that goes on, is put behind commands none of which is
\* waited for; so is a rule.
LEMMA PartsCommanded ==
    ASSUME NEW queue, NEW more, NEW answers, NEW v, Parts(queue, answers, v),
           NEW n \in Nat, DOMAIN queue = 1..n, DOMAIN more = 1..(n + 1),
           \A i \in 1..n : more[i] = queue[i],
           more[n + 1].kind = "page" =>
            /\ more[n + 1].generation <= v.generation
            /\ v.loading /\ GoesOn(more[n + 1], v)
            /\ \A i \in DOMAIN queue : ~Asked(queue[i], v)
            /\ \A i \in DOMAIN answers : ~Answered(answers[i], v)
    PROVE  Parts(more, answers, v)
<1>1. \A i \in 1..(n + 1) : i = n + 1 \/ i \in 1..n
  OBVIOUS
<1>2. Recent(more, answers, v)
  BY <1>1 DEF Parts, Recent
<1>3. Asking(more, v)
  BY <1>1 DEF Parts, Asking, Asked
<1>4. Apart(more, answers, v)
  BY <1>1 DEF Parts, Apart, Asked
<1> QED
  BY <1>2, <1>3, <1>4 DEF Parts

\* The first command becomes the last answer.
LEMMA PartsAnswered ==
    ASSUME SignalsOK, NEW queue, NEW rest, NEW v, Parts(queue, signals, v),
           NEW n \in Nat \ {0}, DOMAIN queue = 1..n, DOMAIN rest = 1..(n - 1),
           \A i \in 1..(n - 1) : rest[i] = queue[i + 1],
           NEW x \in Pages, Send(x), x.kind = "page", x.request = queue[1],
           queue[1].kind = "page", Asked(queue[1], v) => Covers(x, v)
    PROVE  Parts(rest, signals', v)
<1>1. /\ DOMAIN signals = 1..Len(signals) /\ Len(signals) \in Nat
      /\ DOMAIN signals' = 1..(Len(signals) + 1)
      /\ \A i \in 1..Len(signals) : signals'[i] = signals[i]
      /\ signals'[Len(signals) + 1] = x
  BY Sent
<1>2. /\ Parts(rest, signals, v)
      /\ Asked(queue[1], v) => \A i \in DOMAIN rest : ~Asked(rest[i], v)
  BY PartsTaken
<1>3. 1 \in DOMAIN queue
  OBVIOUS
<1>4. Answered(x, v) <=> Asked(queue[1], v)
  BY DEF Asked, Answered
<1>5. Asked(queue[1], v) =>
        /\ v.loading /\ GoesOn(queue[1], v)
        /\ \A j \in DOMAIN signals : ~Answered(signals[j], v)
  BY <1>3 DEF Parts, Asking, Apart
<1>6. \A i \in DOMAIN signals' :
        \/ i \in DOMAIN signals /\ signals'[i] = signals[i]
        \/ i = Len(signals) + 1 /\ signals'[i] = x
  BY <1>1
<1>7. Recent(rest, signals', v)
  <2>1. queue[1].generation <= v.generation
    BY <1>3 DEF Parts, Recent
  <2> QED
    BY <1>2, <1>6, <2>1 DEF Parts, Recent
<1>8. Answering(signals', v)
  <2> SUFFICES ASSUME NEW i \in DOMAIN signals', Answered(signals'[i], v)
               PROVE  /\ v.loading /\ GoesOn(signals'[i].request, v) /\ Covers(signals'[i], v)
                      /\ \A j \in DOMAIN signals' : Answered(signals'[j], v) => i = j
    BY DEF Answering
  <2>1. CASE Asked(queue[1], v)
    <3>1. \A j \in DOMAIN signals' : Answered(signals'[j], v) => j = Len(signals) + 1
      BY <1>5, <1>6, <2>1
    <3>2. signals'[i] = x /\ i = Len(signals) + 1
      BY <1>1, <3>1
    <3> QED
      BY <1>5, <2>1, <3>1, <3>2
  <2>2. CASE ~Asked(queue[1], v)
    <3>1. \A j \in DOMAIN signals' : Answered(signals'[j], v) =>
            j \in DOMAIN signals /\ signals'[j] = signals[j]
      BY <1>4, <1>6, <2>2
    <3> QED
      BY <3>1 DEF Parts, Answering
  <2> QED
    BY <2>1, <2>2
<1>9. Apart(rest, signals', v)
  <2> SUFFICES ASSUME NEW i \in DOMAIN rest, NEW j \in DOMAIN signals',
                      Asked(rest[i], v), Answered(signals'[j], v)
               PROVE  FALSE
    BY DEF Apart
  <2>1. ~Asked(queue[1], v)
    BY <1>2
  <2>2. j \in DOMAIN signals /\ signals'[j] = signals[j]
    BY <1>4, <1>6, <2>1
  <2> QED
    BY <1>2, <2>2 DEF Parts, Apart
<1> QED
  BY <1>2, <1>7, <1>8, <1>9 DEF Parts

LEMMA OneRequestInit == Init => OneRequest
<1> SUFFICES ASSUME Init PROVE OneRequest
  OBVIOUS
<1>1. signals = <<>> /\ runtime.queue = <<>>
  BY DEF Init
<1>2. DOMAIN signals = {} /\ DOMAIN runtime.queue = {}
  BY <1>1
<1> QED
  BY <1>2 DEF OneRequest, Parts, Recent, Asking, Answering, Apart

LEMMA OneRequestStep ==
    ASSUME Types, Types', OneRequest, BaseOK, [Next]_vars
    PROVE  OneRequest'
<1> USE DEF Types
<1>0. archive \in Archives /\ \A a \in Archives : Snapshot(a) \in Snapshots
  BY SnapshotOf DEF ArchiveOK
<1>1. CASE Start
  <2>1. Parts(runtime.queue, signals', view)
    BY <1>0, <1>1, PartsSent DEF Start, OneRequest
  <2>2. view' = view /\ runtime'.queue = <<>> /\ DOMAIN runtime'.queue = {}
    BY <1>1 DEF Start
  <2> QED
    BY <2>1, <2>2 DEF OneRequest, Parts, Recent, Asking, Apart
<1>2. CASE Stop
  <2>1. /\ runtime'.queue = runtime.queue /\ signals' = signals
        /\ view'.selected = view.selected /\ view'.generation = view.generation
        /\ view'.messages = view.messages /\ view'.base = view.base
        /\ view'.menu = view.menu /\ view'.loading = view.loading
    BY <1>2, StopEffect DEF Stop
  <2>2. Parts(runtime.queue, signals, view')
    BY <2>1, PartsKept DEF OneRequest
  <2> QED
    BY <2>1, <2>2 DEF OneRequest
<1>3. ASSUME NEW m \in Messages, Import(m) PROVE OneRequest'
  <2>1. Parts(runtime.queue, signals', view)
    BY <1>3, ImportEffect, PartsSent DEF OneRequest
  <2> QED
    BY <1>3, <2>1 DEF Import, OneRequest
<1>4. ASSUME NEW s \in Scopes, NEW whole \in BOOLEAN, Delete(s, whole) PROVE OneRequest'
  <2>1. /\ view'.base = view.base \cap archive'.messages
        /\ view'.selected = view.selected /\ view'.generation = view.generation
        /\ view'.messages = view.messages /\ view'.menu = view.menu
        /\ view'.loading = view.loading
        /\ DOMAIN signals' = DOMAIN signals
        /\ \A i \in DOMAIN signals :
            /\ signals[i].kind = "snapshot" => signals'[i] = signals[i]
            /\ signals[i].kind = "page" =>
                /\ signals'[i].kind = "page"
                /\ signals'[i].error = signals[i].error
                /\ signals'[i].request = signals[i].request
                /\ signals'[i].base = signals[i].base \cap archive'.messages
    BY <1>4, DeleteEffect
  <2>2. \A i \in DOMAIN signals :
            /\ signals'[i].kind = "page" <=> signals[i].kind = "page"
            /\ signals[i].kind = "page" =>
                /\ signals'[i].error = signals[i].error
                /\ signals'[i].request = signals[i].request
                /\ signals'[i].base = signals[i].base \cap archive'.messages
    <3>1. \A i \in DOMAIN signals : signals[i] \in Pages \cup Snapshots
      BY LenProperties, ElementOfSeq DEF SignalsOK
    <3> QED
      BY <2>1, <3>1, Kinds
  <2>3. runtime' = runtime
    BY <1>4 DEF Delete
  <2>4. Recent(runtime.queue, signals', view')
    BY <2>1, <2>2 DEF OneRequest, Parts, Recent
  <2>5. Asking(runtime.queue, view')
    BY <2>1 DEF OneRequest, Parts, Asking, Asked, GoesOn
  <2>6. Answering(signals', view')
    <3> SUFFICES ASSUME NEW i \in DOMAIN signals', Answered(signals'[i], view')
                 PROVE  /\ view'.loading /\ GoesOn(signals'[i].request, view')
                        /\ Covers(signals'[i], view')
                        /\ \A j \in DOMAIN signals' : Answered(signals'[j], view') => i = j
      BY DEF Answering
    <3>1. /\ i \in DOMAIN signals /\ signals[i].kind = "page" /\ Answered(signals[i], view)
          /\ signals'[i].error = signals[i].error
          /\ signals'[i].request = signals[i].request
          /\ signals'[i].base = signals[i].base \cap archive'.messages
      BY <2>1, <2>2 DEF Answered
    <3>2. /\ view.loading /\ GoesOn(signals[i].request, view) /\ Covers(signals[i], view)
          /\ \A j \in DOMAIN signals : Answered(signals[j], view) => i = j
      BY <3>1 DEF OneRequest, Parts, Answering
    <3>3. GoesOn(signals'[i].request, view')
      BY <2>1, <3>1, <3>2 DEF GoesOn
    <3>4. Covers(signals'[i], view')
      BY <2>1, <3>1, <3>2 DEF Covers
    <3>5. \A j \in DOMAIN signals' : Answered(signals'[j], view') => Answered(signals[j], view)
      BY <2>1, <2>2 DEF Answered
    <3> QED
      BY <2>1, <3>2, <3>3, <3>4, <3>5
  <2>7. Apart(runtime.queue, signals', view')
    BY <2>1, <2>2 DEF OneRequest, Parts, Apart, Asked, Answered
  <2> QED
    BY <2>3, <2>4, <2>5, <2>6, <2>7 DEF OneRequest, Parts
<1>5. CASE AnswerPage
  <2> DEFINE q == runtime.queue
  <2>1. /\ q # <<>> /\ q[1].kind = "page" /\ view' = view
        /\ runtime' = [runtime EXCEPT !.queue = Tail(q), !.changed = runtime.changed]
        /\ runtime.changed \in BOOLEAN
    BY <1>5, AnswerEffect DEF AnswerPage
  <2>2. /\ DOMAIN q = 1..Len(q) /\ Len(q) \in Nat /\ 1 \in DOMAIN q
        /\ DOMAIN runtime'.queue = 1..(Len(q) - 1)
        /\ \A i \in 1..(Len(q) - 1) : runtime'.queue[i] = q[i + 1]
    BY <2>1, CommandTaken
  <2>3. PICK x \in Pages :
            /\ Send(x) /\ x.kind = "page" /\ x.request = q[1]
            /\ ~x.error => x.base = {m \in archive.messages : m.scope = q[1].scope}
    BY <1>5, AnswerEffect
  <2>4. Asked(q[1], view) => Covers(x, view)
    <3> SUFFICES ASSUME Asked(q[1], view), ~view.menu, q[1].before # Nothing, ~x.error
                 PROVE  view.base \subseteq x.base
      BY <2>3 DEF Covers
    <3>1. q[1].scope = view.selected
      BY <2>2 DEF OneRequest, Parts, Asking, GoesOn
    <3> QED
      BY <2>3, <3>1 DEF BaseOK
  <2>5. Parts(q, signals, view) /\ Len(q) \in Nat \ {0}
    BY <2>2 DEF OneRequest
  <2> DEFINE rest == runtime'.queue
             n == Len(q)
  <2> HIDE DEF q, rest, n
  <2>6. Parts(rest, signals', view)
    <3>1. /\ n \in Nat \ {0} /\ DOMAIN q = 1..n /\ DOMAIN rest = 1..(n - 1)
          /\ \A i \in 1..(n - 1) : rest[i] = q[i + 1]
      BY <2>2, <2>5 DEF rest, n
    <3> QED
      BY <2>1, <2>3, <2>4, <2>5, <3>1, PartsAnswered
  <2> QED
    BY <2>1, <2>6 DEF OneRequest, rest
<1>6. CASE StoreRule
  <2> DEFINE q == runtime.queue
             rest == runtime'.queue
             n == Len(q)
  <2>1. /\ q # <<>> /\ view' = view /\ signals' = signals
        /\ \E changed \in BOOLEAN :
            runtime' = [runtime EXCEPT !.queue = Tail(q), !.changed = changed]
    BY <1>6, StoreEffect DEF StoreRule
  <2>2. /\ DOMAIN q = 1..n /\ n \in Nat /\ 1 \in DOMAIN q
        /\ DOMAIN rest = 1..(n - 1)
        /\ \A i \in 1..(n - 1) : rest[i] = q[i + 1]
    BY <2>1, CommandTaken
  <2>3. Parts(q, signals, view) /\ n \in Nat \ {0}
    BY <2>2 DEF OneRequest
  <2> HIDE DEF q, rest, n
  <2>4. Parts(rest, signals, view)
    BY <2>2, <2>3, PartsTaken
  <2> QED
    BY <2>1, <2>4 DEF OneRequest, rest
<1>7. CASE ReportChange
  <2>1. Parts(runtime.queue, signals', view)
    BY <1>0, <1>7, PartsSent DEF ReportChange, OneRequest
  <2>2. runtime'.queue = runtime.queue
    BY <1>7 DEF ReportChange, RuntimeOK
  <2> QED
    BY <1>7, <2>1, <2>2 DEF ReportChange, OneRequest
<1>8. CASE ReceivePage
  <2>1. /\ signals # <<>> /\ signals' = Tail(signals) /\ Head(signals).kind = "page"
        /\ runtime' = runtime
        /\ view' = IF Accepted(Head(signals)) THEN Shown(Head(signals)) ELSE view
    BY <1>8 DEF ReceivePage
  <2>2. Head(signals) = signals[1] /\ signals[1] \in Pages
    BY <2>1, SignalTaken, Kinds
  <2>3. /\ Parts(runtime.queue, signals', view)
        /\ Answered(signals[1], view) =>
            /\ \A i \in DOMAIN runtime.queue : ~Asked(runtime.queue[i], view)
            /\ \A i \in DOMAIN signals' : ~Answered(signals'[i], view)
    BY <2>1, PartsReceived DEF OneRequest
  <2>4. CASE Accepted(signals[1])
    <3>1. view' = Shown(signals[1]) /\ view'.generation = view.generation
      BY <2>1, <2>2, <2>4, ShownEffect
    <3>2. Answered(signals[1], view)
      BY <2>1, <2>2, <2>4 DEF Accepted, Answered
    <3>3. /\ Recent(runtime.queue, signals', view')
          /\ \A i \in DOMAIN runtime.queue : ~Asked(runtime.queue[i], view')
          /\ \A i \in DOMAIN signals' : ~Answered(signals'[i], view')
      BY <2>3, <3>1, <3>2 DEF Parts, Recent, Asked, Answered
    <3> QED
      BY <2>1, <3>3, PartsNone DEF OneRequest
  <2>5. CASE ~Accepted(signals[1])
    BY <2>1, <2>2, <2>3, <2>5 DEF OneRequest
  <2> QED
    BY <2>4, <2>5
<1>9. CASE ReceiveSnapshot
  <2>1. /\ signals # <<>> /\ signals' = Tail(signals) /\ runtime' = runtime
    BY <1>9 DEF ReceiveSnapshot
  <2>2. signals[1].library \in Archives /\ Head(signals) = signals[1]
    BY <1>9, SignalTaken, Kinds DEF ReceiveSnapshot, Snapshots
  <2>3. view' = view \/ Rebuild(signals[1].library)
    BY <1>9, <2>2 DEF ReceiveSnapshot
  <2>4. view' = view \/ view'.generation = view.generation + 1
    BY <2>2, <2>3, RebuildEffect
  <2>5. Parts(runtime.queue, signals, view')
    <3>1. CASE view' = view
      BY <3>1 DEF OneRequest
    <3>2. CASE view'.generation = view.generation + 1
      BY <3>2, NewGeneration, PartsNone
    <3> QED
      BY <2>4, <3>1, <3>2
  <2>6. Parts(runtime.queue, signals', view')
    BY <2>1, <2>5, PartsReceived
  <2> QED
    BY <2>1, <2>6 DEF OneRequest
<1>10. ASSUME NEW s \in Scopes, Click(s) PROVE OneRequest'
  <2>1. /\ view'.generation = view.generation + 1 /\ signals' = signals
        /\ \/ UNCHANGED runtime
           \/ \E c \in PageCommands :
                 /\ Command(c) /\ c.before = Nothing
                 /\ c.generation = view.generation + 1 /\ view'.loading
    BY <1>10, ClickEffect DEF Click
  <2>2. /\ \A i \in DOMAIN runtime.queue : ~Asked(runtime.queue[i], view')
        /\ \A i \in DOMAIN signals : ~Answered(signals[i], view')
        /\ Recent(runtime.queue, signals, view')
    BY <2>1, NewGeneration
  <2>3. Parts(runtime.queue, signals, view')
    BY <2>2, PartsNone
  <2>4. CASE UNCHANGED runtime
    BY <2>1, <2>3, <2>4 DEF OneRequest
  <2>5. ASSUME NEW c \in PageCommands,
               Command(c), c.before = Nothing,
               c.generation = view.generation + 1, view'.loading
        PROVE  OneRequest'
    <3> DEFINE q == runtime.queue
               n == Len(q)
               more == runtime'.queue
    <3>1. /\ DOMAIN q = 1..n /\ n \in Nat /\ DOMAIN more = 1..(n + 1)
          /\ \A i \in 1..n : more[i] = q[i]
          /\ more[n + 1] = c
      BY <2>5, Commanded
    <3>2. c.generation <= view'.generation
      BY <2>1, <2>5, LibraryConstantsOK DEF PageCommands
    <3>3. GoesOn(c, view')
      BY <2>5 DEF GoesOn
    <3> HIDE DEF q, n, more
    <3>4. Parts(more, signals, view')
      BY <2>2, <2>3, <2>5, <3>1, <3>2, <3>3, PartsCommanded DEF q
    <3> QED
      BY <2>1, <3>4 DEF OneRequest, more
  <2> QED
    BY <2>1, <2>4, <2>5
<1>11. ASSUME NEW s \in Scopes, OpenMenu(s) PROVE OneRequest'
  <2>1. /\ view'.menu = TRUE /\ view'.generation = view.generation
        /\ view'.loading = view.loading /\ runtime' = runtime /\ signals' = signals
    BY <1>11, OpenMenuEffect DEF OpenMenu
  <2>2. Parts(runtime.queue, signals, view')
    BY <2>1 DEF OneRequest, Parts, Recent, Asking, Answering, Apart, Asked, Answered,
                GoesOn, Covers
  <2> QED
    BY <2>1, <2>2 DEF OneRequest
<1>12. CASE ShowMore
  <2>1. PICK c \in PageCommands :
           /\ Command(c)
           /\ c.kind = "page" /\ c.scope = view.selected
           /\ view.messages # <<>> /\ c.before = view.messages[1]
           /\ c.generation = view.generation
           /\ ~view.loading /\ view'.loading
           /\ view'.selected = view.selected /\ view'.generation = view.generation
           /\ view'.messages = view.messages /\ view'.base = view.base
           /\ view'.menu = view.menu
    BY <1>12, ShowMoreEffect
  <2>2. signals' = signals
    BY <1>12 DEF ShowMore
  <2>3. /\ \A i \in DOMAIN runtime.queue : ~Asked(runtime.queue[i], view')
        /\ \A i \in DOMAIN signals : ~Answered(signals[i], view')
    BY <2>1 DEF OneRequest, Parts, Asking, Answering, Asked, Answered
  <2>4. Recent(runtime.queue, signals, view')
    BY <2>1 DEF OneRequest, Parts, Recent
  <2>5. Parts(runtime.queue, signals, view')
    BY <2>3, <2>4, PartsNone
  <2> DEFINE q == runtime.queue
             n == Len(q)
             more == runtime'.queue
  <2>6. /\ DOMAIN q = 1..n /\ n \in Nat /\ DOMAIN more = 1..(n + 1)
        /\ \A i \in 1..n : more[i] = q[i]
        /\ more[n + 1] = c
    BY <2>1, Commanded
  <2>7. c.generation <= view'.generation
    BY <2>1, LibraryConstantsOK DEF PageCommands
  <2>8. GoesOn(c, view')
    BY <2>1 DEF GoesOn
  <2> HIDE DEF q, n, more
  <2>9. Parts(more, signals, view')
    BY <2>1, <2>3, <2>5, <2>6, <2>7, <2>8, PartsCommanded DEF q
  <2> QED
    BY <2>2, <2>9 DEF OneRequest, more
<1>13. ASSUME NEW s \in Scopes, NEW mode \in Modes, ChooseRule(s, mode) PROVE OneRequest'
  <2> DEFINE c == [kind |-> "rule", scope |-> s, mode |-> mode]
             q == runtime.queue
             n == Len(q)
             more == runtime'.queue
  <2>1. c \in PageCommands \cup RuleCommands /\ Command(c) /\ c.kind # "page"
    BY <1>13 DEF RuleCommands, ChooseRule
  <2> HIDE DEF c
  <2>2. /\ DOMAIN q = 1..n /\ n \in Nat /\ DOMAIN more = 1..(n + 1)
        /\ \A i \in 1..n : more[i] = q[i]
        /\ more[n + 1] = c
    BY <2>1, Commanded
  <2>3. Parts(q, signals, view) /\ view' = view /\ signals' = signals
    BY <1>13 DEF OneRequest, ChooseRule
  <2> HIDE DEF q, n, more
  <2>4. Parts(more, signals, view)
    BY <2>1, <2>2, <2>3, PartsCommanded
  <2> QED
    BY <2>3, <2>4 DEF OneRequest, more
<1>14. CASE UNCHANGED vars
  BY <1>14 DEF vars, OneRequest
<1> QED
  BY <1>1, <1>2, <1>3, <1>4, <1>5, <1>6, <1>7, <1>8, <1>9, <1>10, <1>11, <1>12, <1>13, <1>14
  DEF Next, RuntimeStep, Receive, User

-----------------------------------------------------------------------------
(* The window *)

LEMMA WindowInit == Init => WindowOK
<1> SUFFICES ASSUME Init PROVE WindowOK
  OBVIOUS
<1>1. /\ view.messages = <<>> /\ view.base = {} /\ DOMAIN view.messages = {}
  BY DEF Init, NoView
<1> QED
  BY <1>1 DEF WindowOK, BaseOK, WindowHasNoHoles

\* A window whose messages stay, of a base that may lose some.
LEMMA WindowKept ==
    ASSUME WindowOK, view'.base \subseteq view.base, view'.base \subseteq archive'.messages,
           view'.selected = view.selected, view'.messages = view.messages,
           view'.menu = view.menu,
           view'.notice = TRUE \/ (view'.hasMore = view.hasMore /\ view'.notice = view.notice)
    PROVE  WindowOK'
<1>1. BaseOK'
  BY DEF WindowOK, BaseOK
<1>2. WindowHasNoHoles'
  BY DEF WindowOK, WindowHasNoHoles
<1> QED
  BY <1>1, <1>2 DEF WindowOK

LEMMA WindowEmpty ==
    ASSUME view'.messages = <<>>, view'.base = {}
    PROVE  WindowOK'
<1>1. DOMAIN view'.messages = {}
  OBVIOUS
<1> QED
  BY <1>1 DEF WindowOK, BaseOK, WindowHasNoHoles

\* The first page of a branch.
LEMMA WindowFirst ==
    ASSUME NEW p \in Pages, PageOK(p, archive.messages), ~p.error,
           p.request.before = Nothing, p.request.scope = view'.selected,
           archive' = archive,
           view'.messages = p.messages, view'.base = p.base,
           view'.hasMore = p.hasMore
    PROVE  WindowOK'
<1>1. /\ InOrder(p.messages)
      /\ \A i \in DOMAIN p.messages : p.messages[i].scope = p.request.scope
      /\ p.base \subseteq archive.messages
      /\ \A m \in p.base :
            /\ m.scope = p.request.scope
            /\ \/ m \in ToSet(p.messages)
               \/ p.hasMore /\ p.messages # <<>> /\ Before(m, p.messages[1])
  BY DEF PageOK, Older
<1>2. BaseOK'
  BY <1>1 DEF BaseOK
<1>3. WindowHasNoHoles'
  <2>1. \A i \in DOMAIN p.messages : p.messages[i].scope = view'.selected
    BY <1>1
  <2>2. \A i, j \in DOMAIN p.messages : i < j => Before(p.messages[i], p.messages[j])
    BY <1>1 DEF InOrder
  <2>3. p.messages # <<>> =>
            \A m \in p.base : Before(m, p.messages[1]) \/ m \in ToSet(p.messages)
    BY <1>1
  <2>4. ~p.hasMore => p.base \subseteq ToSet(p.messages)
    BY <1>1
  <2> QED
    BY <2>1, <2>2, <2>3, <2>4 DEF WindowHasNoHoles
<1> QED
  BY <1>2, <1>3 DEF WindowOK

\* A page of older messages goes before those that are shown.
LEMMA WindowMore ==
    ASSUME Types, Types', WindowOK, ~view.menu,
           NEW p \in Pages, PageOK(p, archive.messages), ~p.error,
           p.request.before # Nothing, p.request.scope = view.selected,
           view.messages # <<>>, p.request.before = view.messages[1],
           view.base \subseteq p.base,
           archive' = archive, view'.selected = view.selected,
           view'.messages =
                Sorted(ToSet(p.messages) \ ToSet(view.messages)) \o view.messages,
           view'.base = view.base, view'.hasMore = p.hasMore
    PROVE  WindowOK'
<1> DEFINE new == ToSet(p.messages) \ ToSet(view.messages)
           older == Sorted(new)
           shown == view.messages
           first == shown[1]
<1>1. /\ InOrder(p.messages)
      /\ \A i \in DOMAIN p.messages :
            p.messages[i].scope = view.selected /\ Before(p.messages[i], first)
      /\ \A m \in p.base : Before(m, first) =>
            \/ m \in ToSet(p.messages)
            \/ p.hasMore /\ p.messages # <<>> /\ Before(m, p.messages[1])
  BY DEF PageOK, Older
<1>2. shown \in Seq(Messages) /\ p.messages \in Seq(Messages)
  BY DEF Types, ViewOK, Views, Pages
<1>3. new \in SUBSET Messages /\ IsFiniteSet(new) /\ new \subseteq ToSet(p.messages)
  BY <1>2, FiniteToSet, FS_Subset
<1>4. older \in Seq(Messages) /\ ToSet(older) = new /\ InOrder(older)
  <2> HIDE DEF new
  <2> QED
    BY <1>3, SortedInOrder
<1>5. /\ \A i \in DOMAIN shown : shown[i].scope = view.selected
      /\ \A i, j \in DOMAIN shown : i < j => Before(shown[i], shown[j])
      /\ \A m \in view.base : Before(m, first) \/ m \in ToSet(shown)
  BY DEF WindowOK, WindowHasNoHoles
<1>6. \A m \in new : m \in Messages /\ m.scope = view.selected /\ Before(m, first)
  BY <1>1, <1>3 DEF ToSet
<1> HIDE DEF new, older
<1> DEFINE all == older \o shown
<1>7. view'.messages = all
  BY DEF older, new
<1>8. /\ all \in Seq(Messages) /\ Len(all) = Len(older) + Len(shown)
      /\ Len(older) \in Nat /\ Len(shown) \in Nat
      /\ DOMAIN all = 1..(Len(older) + Len(shown))
      /\ DOMAIN older = 1..Len(older) /\ DOMAIN shown = 1..Len(shown)
      /\ \A i \in 1..(Len(older) + Len(shown)) :
            all[i] = IF i <= Len(older) THEN older[i] ELSE shown[i - Len(older)]
  BY <1>2, <1>4, ConcatProperties, LenProperties
<1>9. /\ 1 \in DOMAIN shown /\ Len(shown) >= 1
      /\ \A i \in DOMAIN shown : shown[i] \in Messages
      /\ \A i \in DOMAIN older : older[i] \in Messages /\ older[i] \in new
  <2>1. 1 \in DOMAIN shown
    BY <1>2, Taken
  <2>2. \A i \in DOMAIN shown : shown[i] \in Messages
    BY <1>2, LenProperties, ElementOfSeq
  <2>3. \A i \in DOMAIN older : older[i] \in Messages /\ older[i] \in new
    BY <1>4, <1>6 DEF ToSet
  <2> QED
    BY <1>8, <2>1, <2>2, <2>3
<1> HIDE DEF all
<1>10. \A i \in DOMAIN all :
        \/ i \in DOMAIN older /\ all[i] = older[i]
        \/ i > Len(older) /\ i - Len(older) \in DOMAIN shown /\ all[i] = shown[i - Len(older)]
  BY <1>8
<1>11. \A i \in DOMAIN all : all[i].scope = view.selected
  BY <1>5, <1>6, <1>9, <1>10
<1>12. \A i, j \in DOMAIN all : i < j => Before(all[i], all[j])
  <2> SUFFICES ASSUME NEW i \in DOMAIN all, NEW j \in DOMAIN all, i < j
               PROVE  Before(all[i], all[j])
    OBVIOUS
  <2>1. i \in Nat /\ j \in Nat /\ Len(older) \in Nat
    BY <1>8
  <2>2. CASE j \in DOMAIN older /\ all[j] = older[j]
    <3>1. i \in DOMAIN older /\ all[i] = older[i]
      BY <1>8, <1>10, <2>1, <2>2
    <3> QED
      BY <1>4, <2>2, <3>1 DEF InOrder
  <2>3. CASE j > Len(older) /\ j - Len(older) \in DOMAIN shown /\ all[j] = shown[j - Len(older)]
    <3>1. CASE i \in DOMAIN older /\ all[i] = older[i]
      <4>1. all[i] \in Messages /\ Before(all[i], first)
        BY <1>6, <1>9, <3>1
      <4>2. all[j] = first \/ Before(first, all[j])
        <5>1. PICK k \in DOMAIN shown : k = j - Len(older) /\ all[j] = shown[k]
          BY <2>3
        <5>2. k = 1 \/ 1 < k
          BY <1>8
        <5> QED
          BY <1>5, <1>9, <5>1, <5>2
      <4>3. first \in Messages /\ all[j] \in Messages
        BY <1>9, <2>3
      <4> QED
        BY <4>1, <4>2, <4>3, BeforeIsAnOrder
    <3>2. CASE i > Len(older) /\ i - Len(older) \in DOMAIN shown
               /\ all[i] = shown[i - Len(older)]
      <4>1. i - Len(older) < j - Len(older)
        BY <2>1
      <4> QED
        BY <1>5, <2>3, <3>2, <4>1
    <3> QED
      BY <1>10, <3>1, <3>2
  <2> QED
    BY <1>10, <2>2, <2>3
<1>13. \A m \in Messages : m \in new \/ m \in ToSet(shown) => m \in ToSet(all)
  <2>1. ASSUME NEW m \in new PROVE m \in ToSet(all)
    <3>1. PICK i \in DOMAIN older : older[i] = m
      BY <1>4 DEF ToSet
    <3>2. i \in DOMAIN all /\ all[i] = m
      BY <1>8, <3>1
    <3> QED
      BY <3>2 DEF ToSet
  <2>2. ASSUME NEW m \in ToSet(shown) PROVE m \in ToSet(all)
    <3>1. PICK i \in DOMAIN shown : shown[i] = m
      BY DEF ToSet
    <3>2. i + Len(older) \in DOMAIN all /\ all[i + Len(older)] = m
      BY <1>8, <3>1
    <3> QED
      BY <3>2 DEF ToSet
  <2> QED
    BY <2>1, <2>2
<1>14. \A m \in view.base :
        \/ m \in ToSet(all)
        \/ p.hasMore /\ Before(m, all[1])
  <2> SUFFICES ASSUME NEW m \in view.base, m \notin ToSet(all)
               PROVE  p.hasMore /\ Before(m, all[1])
    OBVIOUS
  <2>1. m \in Messages /\ m \in p.base
    BY DEF Types, ViewOK, Views
  <2>2. m \notin new /\ m \notin ToSet(shown)
    BY <1>13, <2>1
  <2>3. Before(m, first) /\ m \notin ToSet(p.messages)
    BY <1>5, <2>2 DEF new
  <2>4. p.hasMore /\ p.messages # <<>> /\ Before(m, p.messages[1])
    BY <1>1, <2>1, <2>3
  <2>5. all[1] \in Messages /\ (all[1] \in new \/ all[1] = first)
    <3>1. 1 \in DOMAIN all
      BY <1>8, <1>9
    <3>2. CASE 1 \in DOMAIN older /\ all[1] = older[1]
      BY <1>9, <3>2
    <3>3. CASE 1 > Len(older) /\ all[1] = shown[1 - Len(older)]
      <4>1. 1 - Len(older) = 1
        BY <1>8, <3>3
      <4> QED
        BY <1>9, <3>3, <4>1
    <3> QED
      BY <1>10, <3>1, <3>2, <3>3
  <2>6. CASE all[1] = first
    BY <2>3, <2>4, <2>6
  <2>7. CASE all[1] \in new
    <3>1. PICK k \in DOMAIN p.messages : p.messages[k] = all[1]
      BY <1>3, <2>7 DEF ToSet
    <3>2. /\ 1 \in DOMAIN p.messages /\ p.messages[1] \in Messages
          /\ DOMAIN p.messages = 1..Len(p.messages) /\ Len(p.messages) \in Nat
      BY <1>2, <2>4, Taken
    <3>3. k = 1 \/ 1 < k
      BY <3>1, <3>2
    <3>4. InOrder(p.messages)
      BY <1>1
    <3>5. all[1] = p.messages[1] \/ Before(p.messages[1], all[1])
      BY <3>1, <3>2, <3>3, <3>4 DEF InOrder
    <3> QED
      BY <2>1, <2>4, <2>5, <3>2, <3>5, BeforeIsAnOrder
  <2> QED
    BY <2>5, <2>6, <2>7
<1>15. WindowHasNoHoles'
  <2>1. \A m \in view.base : Before(m, all[1]) \/ m \in ToSet(all)
    BY <1>14
  <2>2. ~p.hasMore => view.base \subseteq ToSet(all)
    BY <1>14
  <2> QED
    BY <1>7, <1>11, <1>12, <2>1, <2>2 DEF WindowHasNoHoles
<1>16. BaseOK'
  BY DEF WindowOK, BaseOK
<1> QED
  BY <1>15, <1>16 DEF WindowOK

\* Behind the menu of another branch nothing is said of the window.
LEMMA WindowMenu ==
    ASSUME view'.menu = TRUE, view'.base \subseteq archive'.messages
    PROVE  WindowOK'
BY DEF WindowOK, BaseOK, WindowHasNoHoles

LEMMA WindowStep ==
    ASSUME Types, Types', PagesOK, OneRequest, WindowOK, [Next]_vars
    PROVE  WindowOK'
<1> USE DEF Types
<1>0. view.base \subseteq archive.messages
  BY DEF WindowOK, BaseOK
<1>1. ASSUME view' = view, archive.messages \subseteq archive'.messages PROVE WindowOK'
  <2>1. /\ view'.base \subseteq view.base /\ view'.base \subseteq archive'.messages
        /\ view'.selected = view.selected /\ view'.messages = view.messages
        /\ view'.menu = view.menu /\ view'.hasMore = view.hasMore
        /\ view'.notice = view.notice
    BY <1>0, <1>1
  <2> QED
    BY <2>1, WindowKept
<1>2. CASE Start
  BY <1>1, <1>2 DEF Start
<1>3. CASE Stop
  <2>1. /\ view'.selected = view.selected /\ view'.messages = view.messages
        /\ view'.base = view.base /\ view'.menu = view.menu
        /\ view'.hasMore = view.hasMore /\ view'.notice = view.notice
        /\ archive' = archive
    BY <1>3, StopEffect DEF Stop
  <2> QED
    BY <1>0, <2>1, WindowKept
<1>4. ASSUME NEW m \in Messages, Import(m) PROVE WindowOK'
  <2>1. archive.messages \subseteq archive'.messages /\ view' = view
    BY <1>4, ImportEffect DEF Import
  <2> QED
    BY <1>1, <2>1
<1>5. ASSUME NEW s \in Scopes, NEW whole \in BOOLEAN, Delete(s, whole) PROVE WindowOK'
  <2>1. /\ view'.base = view.base \cap archive'.messages
        /\ view'.selected = view.selected /\ view'.messages = view.messages
        /\ view'.menu = view.menu
        /\ view'.hasMore = view.hasMore /\ view'.notice = view.notice
    BY <1>5, DeleteEffect
  <2>2. view'.base \subseteq view.base /\ view'.base \subseteq archive'.messages
    BY <2>1
  <2> QED
    BY <2>1, <2>2, WindowKept
<1>6. CASE AnswerPage
  BY <1>1, <1>6 DEF AnswerPage
<1>7. CASE StoreRule
  <2>1. view' = view /\ archive'.messages = archive.messages
    BY <1>7, StoreEffect DEF StoreRule
  <2> QED
    BY <1>1, <2>1
<1>8. CASE ReportChange
  BY <1>1, <1>8 DEF ReportChange
<1>9. CASE ReceivePage
  <2> DEFINE p == signals[1]
  <2>1. /\ signals # <<>> /\ signals' = Tail(signals) /\ Head(signals).kind = "page"
        /\ archive' = archive
        /\ view' = IF Accepted(Head(signals)) THEN Shown(Head(signals)) ELSE view
    BY <1>9 DEF ReceivePage
  <2>2. Head(signals) = p /\ p \in Pages /\ 1 \in DOMAIN signals /\ p.kind = "page"
    BY <2>1, SignalTaken, Kinds
  <2>3. CASE ~Accepted(p)
    BY <1>1, <2>1, <2>2, <2>3
  <2>4. CASE Accepted(p)
    <3>1. PageOK(p, archive.messages)
      BY <2>2 DEF PagesOK
    <3>2. /\ GoesOn(p.request, view) /\ Covers(p, view) /\ p.request.scope = view.selected
      BY <2>2, <2>4 DEF OneRequest, Parts, Answering, Answered, Accepted
    <3>3. view' = Shown(p)
      BY <2>1, <2>2, <2>4
    <3> HIDE DEF p
    <3>4. /\ view'.selected = view.selected /\ view'.menu = view.menu
          /\ p.error =>
                view'.messages = view.messages /\ view'.base = view.base /\ view'.notice = TRUE
          /\ ~p.error => view'.hasMore = p.hasMore
          /\ ~p.error /\ p.request.before = Nothing =>
                view'.messages = p.messages /\ view'.base = p.base
          /\ ~p.error /\ p.request.before # Nothing =>
                /\ view'.messages =
                    Sorted(ToSet(p.messages) \ ToSet(view.messages)) \o view.messages
                /\ view'.base = view.base
      BY <2>2, <3>3, ShownEffect
    <3>5. ~p.error => p.base \subseteq archive.messages
      BY <3>1 DEF PageOK
    <3>6. view'.base \subseteq archive'.messages
      BY <1>0, <2>1, <3>4, <3>5
    <3>7. CASE p.error
      BY <1>0, <2>1, <3>4, <3>7, WindowKept
    <3>8. CASE ~p.error /\ p.request.before = Nothing
      BY <2>1, <2>2, <3>1, <3>2, <3>4, <3>8, WindowFirst
    <3>9. CASE ~p.error /\ p.request.before # Nothing /\ ~view.menu
      <4>1. /\ view.messages # <<>> /\ p.request.before = view.messages[1]
            /\ view.base \subseteq p.base
        BY <3>2, <3>9 DEF GoesOn, Covers
      <4> QED
        BY <2>1, <2>2, <3>1, <3>2, <3>4, <3>9, <4>1, WindowMore
    <3>10. CASE view.menu
      <4>1. view'.menu = TRUE
        BY <3>4, <3>10 DEF ViewOK, Views
      <4> QED
        BY <3>6, <4>1, WindowMenu
    <3> QED
      BY <3>7, <3>8, <3>9, <3>10
  <2> QED
    BY <2>3, <2>4
<1>10. CASE ReceiveSnapshot
  <2>1. signals[1].library \in Archives /\ Head(signals) = signals[1] /\ archive' = archive
    BY <1>10, SignalTaken, Kinds DEF ReceiveSnapshot, Snapshots
  <2>2. view' = view \/ Rebuild(signals[1].library)
    BY <1>10, <2>1 DEF ReceiveSnapshot
  <2>3. view' = view \/ (view'.messages = <<>> /\ view'.base = {})
    BY <2>1, <2>2, RebuildEffect
  <2> QED
    BY <1>1, <2>1, <2>3, WindowEmpty
<1>11. ASSUME NEW s \in Scopes, Click(s) PROVE WindowOK'
  BY <1>11, ClickEffect, WindowEmpty
<1>12. ASSUME NEW s \in Scopes, OpenMenu(s) PROVE WindowOK'
  <2>1. view'.menu = TRUE /\ view'.base = view.base /\ archive' = archive
    BY <1>12, OpenMenuEffect DEF OpenMenu
  <2> QED
    BY <1>0, <2>1, WindowMenu
<1>13. CASE ShowMore
  <2>1. /\ view'.selected = view.selected /\ view'.messages = view.messages
        /\ view'.base = view.base /\ view'.menu = view.menu
        /\ view'.hasMore = view.hasMore /\ view'.notice = view.notice
        /\ archive' = archive
    BY <1>13, ShowMoreEffect DEF ShowMore
  <2> QED
    BY <1>0, <2>1, WindowKept
<1>14. ASSUME NEW s \in Scopes, NEW mode \in Modes, ChooseRule(s, mode) PROVE WindowOK'
  BY <1>1, <1>14 DEF ChooseRule
<1>15. CASE UNCHANGED vars
  BY <1>1, <1>15 DEF vars
<1> QED
  BY <1>2, <1>3, <1>4, <1>5, <1>6, <1>7, <1>8, <1>9, <1>10, <1>11, <1>12, <1>13, <1>14, <1>15
  DEF Next, RuntimeStep, Receive, User

-----------------------------------------------------------------------------
(* The rules on the page *)

LEMMA RulesInit == Init => NewestIsTrue /\ CombosOK
BY DEF Init, NewestIsTrue, CombosOK, EmptyArchive

LEMMA NewestSent ==
    ASSUME SignalsOK, NEW x \in Pages \cup Snapshots, Send(x), NEW known
    PROVE  /\ x.kind = "snapshot" => Newest(x.library, signals', known)
           /\ x.kind = "page" =>
                \A library : Newest(library, signals, known) => Newest(library, signals', known)
           /\ Redrawn(signals, known) => Redrawn(signals', known)
<1>1. /\ DOMAIN signals = 1..Len(signals) /\ Len(signals) \in Nat
      /\ DOMAIN signals' = 1..(Len(signals) + 1)
      /\ \A i \in 1..Len(signals) : signals'[i] = signals[i]
      /\ signals'[Len(signals) + 1] = x
  BY Sent
<1> DEFINE n == Len(signals) + 1
<1>2. n \in DOMAIN signals' /\ \A j \in DOMAIN signals' : ~(j > n)
  BY <1>1
<1>3. \A i \in DOMAIN signals' : i = n \/ i \in DOMAIN signals
  BY <1>1
<1>4. ASSUME x.kind = "snapshot" PROVE Newest(x.library, signals', known)
  BY <1>1, <1>2, <1>4 DEF Newest
<1>5. ASSUME x.kind = "page", NEW library, Newest(library, signals, known)
      PROVE  Newest(library, signals', known)
  <2>1. CASE \E i \in DOMAIN signals :
                /\ signals[i].kind = "snapshot" /\ signals[i].library = library
                /\ \A j \in DOMAIN signals : j > i => signals[j].kind = "page"
    <3>1. PICK i \in DOMAIN signals :
                /\ signals[i].kind = "snapshot" /\ signals[i].library = library
                /\ \A j \in DOMAIN signals : j > i => signals[j].kind = "page"
      BY <2>1
    <3>2. i \in DOMAIN signals' /\ signals'[i] = signals[i]
      BY <1>1
    <3>3. \A j \in DOMAIN signals' : j > i => signals'[j].kind = "page"
      BY <1>1, <1>3, <1>5, <3>1
    <3> QED
      BY <3>1, <3>2, <3>3 DEF Newest
  <2>2. CASE known = library /\ \A j \in DOMAIN signals : signals[j].kind = "page"
    BY <1>1, <1>3, <1>5, <2>2 DEF Newest
  <2> QED
    BY <1>5, <2>1, <2>2 DEF Newest
<1>6. Redrawn(signals, known) => Redrawn(signals', known)
  BY <1>1, <1>3 DEF Redrawn
<1> QED
  BY <1>4, <1>5, <1>6

LEMMA NewestReceived ==
    ASSUME SignalsOK, signals # <<>>, signals' = Tail(signals), NEW known, NEW now,
           signals[1].kind = "page" => now = known,
           signals[1].kind = "snapshot" => now = signals[1].library
    PROVE  /\ \A library : Newest(library, signals, known) => Newest(library, signals', now)
           /\ now = known /\ Redrawn(signals, known) => Redrawn(signals', known)
<1>1. /\ DOMAIN signals = 1..Len(signals) /\ Len(signals) \in Nat /\ 1 \in DOMAIN signals
      /\ DOMAIN signals' = 1..(Len(signals) - 1)
      /\ \A i \in 1..(Len(signals) - 1) :
           i + 1 \in 1..Len(signals) /\ signals'[i] = signals[i + 1]
      /\ signals[1] \in Pages \cup Snapshots
  BY SignalTaken
<1>2. \A i \in DOMAIN signals :
        i = 1 \/ (i - 1 \in DOMAIN signals' /\ signals'[i - 1] = signals[i] /\ i \in Nat)
  <2> SUFFICES ASSUME NEW i \in DOMAIN signals, i # 1
               PROVE  i - 1 \in DOMAIN signals' /\ signals'[i - 1] = signals[i] /\ i \in Nat
    OBVIOUS
  <2>1. i - 1 \in 1..(Len(signals) - 1) /\ (i - 1) + 1 = i
    BY <1>1
  <2> QED
    BY <1>1, <2>1
<1>3. ASSUME NEW library, Newest(library, signals, known)
      PROVE  Newest(library, signals', now)
  <2>1. CASE \E i \in DOMAIN signals :
                /\ signals[i].kind = "snapshot" /\ signals[i].library = library
                /\ \A j \in DOMAIN signals : j > i => signals[j].kind = "page"
    <3>1. PICK i \in DOMAIN signals :
                /\ signals[i].kind = "snapshot" /\ signals[i].library = library
                /\ \A j \in DOMAIN signals : j > i => signals[j].kind = "page"
      BY <2>1
    <3>2. CASE i = 1
      <4>1. \A j \in DOMAIN signals' : signals'[j].kind = "page"
        BY <1>1, <3>1, <3>2
      <4> QED
        BY <3>1, <3>2, <4>1 DEF Newest
    <3>3. CASE i # 1
      <4>1. i - 1 \in DOMAIN signals' /\ signals'[i - 1] = signals[i] /\ i \in Nat
        BY <1>2, <3>3
      <4>2. ASSUME NEW j \in DOMAIN signals', j > i - 1 PROVE signals'[j].kind = "page"
        <5>1. j + 1 \in DOMAIN signals /\ signals'[j] = signals[j + 1] /\ j \in Nat
          BY <1>1
        <5>2. j + 1 > i
          BY <4>1, <4>2, <5>1
        <5> QED
          BY <3>1, <5>1, <5>2
      <4> QED
        BY <3>1, <4>1, <4>2 DEF Newest
    <3> QED
      BY <3>2, <3>3
  <2>2. CASE known = library /\ \A j \in DOMAIN signals : signals[j].kind = "page"
    BY <1>1, <2>2 DEF Newest
  <2> QED
    BY <1>3, <2>1, <2>2 DEF Newest
<1>4. ASSUME now = known, Redrawn(signals, known) PROVE Redrawn(signals', known)
  <2>1. PICK i \in DOMAIN signals : signals[i].kind = "snapshot" /\ signals[i].library # known
    BY <1>4 DEF Redrawn
  <2>2. i # 1
    BY <1>4, <2>1
  <2> QED
    BY <1>2, <2>1, <2>2 DEF Redrawn
<1> QED
  BY <1>3, <1>4

LEMMA NewestStep ==
    ASSUME Types, NewestIsTrue, [Next]_vars
    PROVE  NewestIsTrue'
<1> USE DEF Types
<1>0. /\ archive \in Archives
      /\ \A a \in Archives :
            /\ Snapshot(a) \in Snapshots /\ Snapshot(a).library \in Archives
            /\ Snapshot(a).kind = "snapshot" /\ Snapshot(a).library.nodes = a.nodes
  BY SnapshotOf DEF ArchiveOK
<1>1. ASSUME archive' \in Archives, Send(Snapshot(archive')), tree' = tree
      PROVE  NewestIsTrue'
  <2>1. Newest(Snapshot(archive').library, signals', tree.library)
    BY <1>0, <1>1, NewestSent
  <2> QED
    BY <1>0, <1>1, <2>1 DEF NewestIsTrue
<1>2. CASE Start
  <2>1. archive' = archive /\ Send(Snapshot(archive)) /\ tree' = tree
    BY <1>2 DEF Start
  <2> QED
    BY <1>0, <1>1, <2>1
<1>3. CASE Stop
  <2>1. runtime'.alive = FALSE
    BY <1>3, StopEffect
  <2> QED
    BY <2>1 DEF NewestIsTrue
<1>4. ASSUME NEW m \in Messages, Import(m) PROVE NewestIsTrue'
  <2>1. ArchiveOK' /\ Send(Snapshot(archive'))
    BY <1>4, ImportEffect
  <2> QED
    BY <1>1, <1>4, <2>1 DEF Import, ArchiveOK
<1>5. ASSUME NEW s \in Scopes, NEW whole \in BOOLEAN, Delete(s, whole) PROVE NewestIsTrue'
  BY <1>5 DEF Delete, NewestIsTrue
<1>6. CASE AnswerPage
  <2>1. PICK x \in Pages : Send(x) /\ x.kind = "page"
    BY <1>6, AnswerEffect
  <2>2. \A library : Newest(library, signals, tree.library) =>
                     Newest(library, signals', tree.library)
    BY <2>1, NewestSent
  <2>3. /\ runtime'.alive = runtime.alive /\ runtime'.changed = runtime.changed
        /\ archive' = archive /\ tree' = tree
    <3>1. /\ runtime.queue # <<>> /\ runtime.changed \in BOOLEAN
          /\ runtime' = [runtime EXCEPT !.queue = Tail(runtime.queue),
                                        !.changed = runtime.changed]
      BY <1>6, AnswerEffect
    <3> QED
      BY <1>6, <3>1, CommandTaken DEF AnswerPage
  <2> QED
    BY <2>2, <2>3 DEF NewestIsTrue
<1>7. CASE StoreRule
  <2>1. /\ archive'.nodes = archive.nodes /\ signals' = signals /\ tree' = tree
        /\ runtime.alive
        /\ \/ runtime'.changed = TRUE
           \/ runtime'.changed = runtime.changed /\ archive' = archive
    <3>1. /\ runtime.queue # <<>> /\ runtime.alive /\ archive'.nodes = archive.nodes
          /\ \/ runtime' = [runtime EXCEPT !.queue = Tail(runtime.queue), !.changed = TRUE]
             \/ /\ archive' = archive /\ runtime.changed \in BOOLEAN
                /\ runtime' = [runtime EXCEPT !.queue = Tail(runtime.queue),
                                              !.changed = runtime.changed]
      BY <1>7, StoreEffect
    <3>2. \/ runtime'.changed = TRUE
          \/ runtime'.changed = runtime.changed /\ archive' = archive
      BY <3>1, CommandTaken
    <3> QED
      BY <1>7, <3>1, <3>2 DEF StoreRule
  <2> QED
    BY <2>1 DEF NewestIsTrue
<1>8. CASE ReportChange
  <2>1. archive' = archive /\ Send(Snapshot(archive)) /\ tree' = tree
    BY <1>8 DEF ReportChange
  <2> QED
    BY <1>0, <1>1, <2>1
<1>9. CASE ReceivePage
  <2>1. /\ signals # <<>> /\ signals' = Tail(signals) /\ Head(signals).kind = "page"
        /\ UNCHANGED <<archive, runtime, tree>>
    BY <1>9 DEF ReceivePage
  <2>2. signals[1].kind = "page"
    BY <2>1, SignalTaken
  <2>3. \A library : Newest(library, signals, tree.library) =>
                     Newest(library, signals', tree.library)
    BY <2>1, <2>2, NewestReceived
  <2> QED
    BY <2>1, <2>3 DEF NewestIsTrue
<1>10. CASE ReceiveSnapshot
  <2>1. /\ signals # <<>> /\ signals' = Tail(signals) /\ Head(signals).kind = "snapshot"
        /\ UNCHANGED <<archive, runtime>>
    BY <1>10 DEF ReceiveSnapshot
  <2>2. /\ Head(signals) = signals[1] /\ signals[1].kind = "snapshot"
        /\ signals[1].library \in Archives
    BY <2>1, SignalTaken, Kinds DEF Snapshots
  <2>3. tree'.library = signals[1].library
    <3>1. CASE signals[1].library = tree.library
      BY <1>10, <2>2, <3>1 DEF ReceiveSnapshot
    <3>2. CASE signals[1].library # tree.library
      BY <1>10, <2>2, <3>2, RebuildEffect DEF ReceiveSnapshot
    <3> QED
      BY <3>1, <3>2
  <2>4. \A library : Newest(library, signals, tree.library) =>
                     Newest(library, signals', tree'.library)
    <3> DEFINE known == tree.library
               now == tree'.library
    <3>1. now = signals[1].library
      BY <2>3
    <3> HIDE DEF known, now
    <3>2. \A library : Newest(library, signals, known) => Newest(library, signals', now)
      BY <2>1, <2>2, <3>1, NewestReceived
    <3> QED
      BY <3>2 DEF known, now
  <2> QED
    BY <2>1, <2>4 DEF NewestIsTrue
<1>11. CASE User
  <2>1. /\ UNCHANGED <<archive, signals>> /\ tree'.library = tree.library
    BY <1>11 DEF User, Click, OpenMenu, ShowMore, ChooseRule, TreeOK
  <2>2. runtime'.alive = runtime.alive /\ runtime'.changed = runtime.changed
    BY <1>11 DEF User, Click, OpenMenu, ShowMore, ChooseRule, Request, Command, RuntimeOK
  <2> QED
    BY <2>1, <2>2 DEF NewestIsTrue
<1>12. CASE UNCHANGED vars
  BY <1>12 DEF vars, NewestIsTrue
<1> QED
  BY <1>2, <1>3, <1>4, <1>5, <1>6, <1>7, <1>8, <1>9, <1>10, <1>11, <1>12
  DEF Next, RuntimeStep, Receive

LEMMA ToldTaken ==
    ASSUME NEW queue, NEW rest, NEW n \in Nat \ {0},
           DOMAIN queue = 1..n, DOMAIN rest = 1..(n - 1),
           \A i \in 1..(n - 1) : rest[i] = queue[i + 1],
           NEW s, NEW mode, NEW a, NEW b, Told(s, mode, queue, a),
           s \in b.nodes => s \in a.nodes,
           IsRule(queue[1], s) => b.rules[s] = queue[1].mode,
           ~IsRule(queue[1], s) => b.rules[s] = a.rules[s]
    PROVE  Told(s, mode, rest, b)
<1>1. \A i \in 1..(n - 1) : i + 1 \in 1..n
  OBVIOUS
<1>2. \A j \in 1..n : j = 1 \/ (j - 1 \in 1..(n - 1) /\ queue[j] = rest[j - 1])
  <2> SUFFICES ASSUME NEW j \in 1..n, j # 1
               PROVE  j - 1 \in 1..(n - 1) /\ queue[j] = rest[j - 1]
    OBVIOUS
  <2>1. j - 1 \in 1..(n - 1) /\ (j - 1) + 1 = j
    OBVIOUS
  <2> QED
    BY <2>1
<1>3. ASSUME NEW i \in DOMAIN rest, IsRule(rest[i], s),
             \A j \in DOMAIN rest : j > i => ~IsRule(rest[j], s)
      PROVE  rest[i].mode = mode
  <2>1. i \in 1..(n - 1) /\ i + 1 \in DOMAIN queue /\ rest[i] = queue[i + 1]
    BY <1>1
  <2>2. ASSUME NEW j \in DOMAIN queue, j > i + 1 PROVE ~IsRule(queue[j], s)
    <3>1. j - 1 \in DOMAIN rest /\ queue[j] = rest[j - 1] /\ j - 1 > i
      BY <1>2, <2>1, <2>2
    <3> QED
      BY <1>3, <3>1
  <2> QED
    BY <1>3, <2>1, <2>2 DEF Told
<1>4. ASSUME \A i \in DOMAIN rest : ~IsRule(rest[i], s)
      PROVE  s \notin b.nodes \/ b.rules[s] = mode
  <2>1. \A j \in DOMAIN queue : j > 1 => ~IsRule(queue[j], s)
    BY <1>2, <1>4
  <2>2. CASE IsRule(queue[1], s)
    <3>1. 1 \in DOMAIN queue
      OBVIOUS
    <3> QED
      BY <2>1, <2>2, <3>1 DEF Told
  <2>3. CASE ~IsRule(queue[1], s)
    <3>1. \A j \in DOMAIN queue : ~IsRule(queue[j], s)
      BY <1>2, <1>4, <2>3
    <3> QED
      BY <2>3, <3>1 DEF Told
  <2> QED
    BY <2>2, <2>3
<1> QED
  BY <1>3, <1>4 DEF Told

LEMMA ToldCommanded ==
    ASSUME NEW queue, NEW more, NEW n \in Nat,
           DOMAIN queue = 1..n, DOMAIN more = 1..(n + 1),
           \A i \in 1..n : more[i] = queue[i],
           NEW s, NEW mode, NEW a,
           IsRule(more[n + 1], s) => more[n + 1].mode = mode,
           ~IsRule(more[n + 1], s) => Told(s, mode, queue, a)
    PROVE  Told(s, mode, more, a)
<1>1. \A i \in DOMAIN more : i = n + 1 \/ (i \in DOMAIN queue /\ more[i] = queue[i] /\ n + 1 > i)
  OBVIOUS
<1>2. n + 1 \in DOMAIN more /\ \A i \in DOMAIN queue : i \in DOMAIN more
  OBVIOUS
<1>3. CASE IsRule(more[n + 1], s)
  <2>1. \A i \in DOMAIN more :
            (\A j \in DOMAIN more : j > i => ~IsRule(more[j], s)) => i = n + 1
    BY <1>1, <1>2, <1>3
  <2> QED
    BY <1>2, <1>3, <2>1 DEF Told
<1>4. CASE ~IsRule(more[n + 1], s)
  <2>1. \A i \in DOMAIN more : IsRule(more[i], s) => i \in DOMAIN queue /\ more[i] = queue[i]
    BY <1>1, <1>4
  <2>2. \A i \in DOMAIN queue : i \in DOMAIN more /\ more[i] = queue[i]
    BY <1>2
  <2> QED
    BY <1>4, <2>1, <2>2 DEF Told
<1> QED
  BY <1>3, <1>4

LEMMA RedrawnReceived ==
    ASSUME SignalsOK, signals # <<>>, signals' = Tail(signals), NEW known,
           signals[1].kind = "page" \/ signals[1].library = known
    PROVE  Redrawn(signals, known) => Redrawn(signals', known)
<1>1. /\ signals[1].kind = "page" => known = known
      /\ signals[1].kind = "snapshot" => known = signals[1].library
  BY Zenon
<1>2. known = known /\ Redrawn(signals, known) => Redrawn(signals', known)
  BY <1>1, NewestReceived
<1> QED
  BY <1>2

LEMMA CombosKept ==
    ASSUME CombosOK, tree' = tree, unsaved \subseteq unsaved',
           Redrawn(signals, tree.library) => Redrawn(signals', tree.library),
           \A s \in tree.library.nodes \ unsaved' :
                Told(s, tree.combos[s], runtime.queue, archive) =>
                    \/ Redrawn(signals', tree.library)
                    \/ Told(s, tree.combos[s], runtime'.queue, archive')
    PROVE  CombosOK'
BY DEF CombosOK

LEMMA CombosStep ==
    ASSUME Types, NewestIsTrue, CombosOK, [Next]_vars
    PROVE  CombosOK'
<1> USE DEF Types
<1> DEFINE known == tree.library
<1>0. /\ archive \in Archives
      /\ \A a \in Archives : Snapshot(a) \in Snapshots
      /\ tree.library \in Archives /\ tree.combos \in [Scopes -> Modes]
  BY SnapshotOf DEF ArchiveOK, TreeOK
<1>1. ASSUME NEW x \in Pages \cup Snapshots, Send(x)
      PROVE  Redrawn(signals, known) => Redrawn(signals', known)
  <2> HIDE DEF known
  <2> QED
    BY <1>1, NewestSent
<1> HIDE DEF known
<1>2. CASE Start
  <2> DEFINE q == runtime.queue
  <2>1. /\ tree' = tree /\ archive' = archive /\ runtime'.queue = <<>>
        /\ unsaved' = unsaved \cup {q[i].scope : i \in {i \in DOMAIN q : q[i].kind = "rule"}}
        /\ Send(Snapshot(archive))
    BY <1>2 DEF Start
  <2>2. Redrawn(signals, known) => Redrawn(signals', known)
    BY <1>0, <1>1, <2>1
  <2>3. ASSUME NEW s \in tree.library.nodes \ unsaved', Told(s, tree.combos[s], q, archive)
        PROVE  Told(s, tree.combos[s], runtime'.queue, archive')
    <3>1. \A i \in DOMAIN q : ~IsRule(q[i], s)
      BY <2>1, <2>3 DEF IsRule
    <3>2. DOMAIN runtime'.queue = {}
      BY <2>1
    <3> QED
      BY <2>1, <2>3, <3>1, <3>2 DEF Told
  <2> QED
    BY <2>1, <2>2, <2>3, CombosKept DEF known
<1>3. CASE Stop
  <2>1. runtime'.queue = runtime.queue /\ UNCHANGED <<archive, signals, tree, unsaved>>
    BY <1>3, StopEffect DEF Stop
  <2> QED
    BY <2>1 DEF CombosOK
<1>4. ASSUME NEW m \in Messages, Import(m) PROVE CombosOK'
  <2>1. Send(Snapshot(archive')) /\ Snapshot(archive') \in Snapshots
    BY <1>4, ImportEffect
  <2>2. Redrawn(signals, known) => Redrawn(signals', known)
    BY <1>1, <2>1
  <2>3. /\ tree' = tree /\ runtime' = runtime /\ unsaved' = unsaved /\ runtime.alive
        /\ archive'.rules = archive.rules
    BY <1>0, <1>4 DEF Import, Archives
  <2>4. ASSUME NEW s \in tree.library.nodes,
               Told(s, tree.combos[s], runtime.queue, archive),
               ~Redrawn(signals, known)
        PROVE  Told(s, tree.combos[s], runtime.queue, archive')
    <3>1. PICK library \in Archives :
                Newest(library, signals, tree.library) /\ library.nodes = archive.nodes
      BY <2>3 DEF NewestIsTrue
    <3>2. library = tree.library
      BY <2>4, <3>1 DEF Newest, Redrawn, known
    <3>3. s \in archive.nodes
      BY <3>1, <3>2
    <3> QED
      BY <2>3, <2>4, <3>3 DEF Told
  <2> QED
    BY <2>2, <2>3, <2>4, CombosKept DEF known
<1>5. ASSUME NEW s \in Scopes, NEW whole \in BOOLEAN, Delete(s, whole) PROVE CombosOK'
  <2>1. /\ DOMAIN signals' = DOMAIN signals
        /\ \A i \in DOMAIN signals : signals[i].kind = "snapshot" => signals'[i] = signals[i]
        /\ \A t \in archive'.nodes :
                t \in archive.nodes /\ archive'.rules[t] = archive.rules[t]
    BY <1>5, DeleteEffect
  <2>2. tree' = tree /\ runtime' = runtime /\ unsaved' = unsaved
    BY <1>5 DEF Delete
  <2>3. Redrawn(signals, known) => Redrawn(signals', known)
    BY <2>1 DEF Redrawn
  <2>4. ASSUME NEW t, NEW mode, Told(t, mode, runtime.queue, archive)
        PROVE  Told(t, mode, runtime.queue, archive')
    BY <2>1, <2>4 DEF Told
  <2> QED
    BY <2>2, <2>3, <2>4, CombosKept DEF known
<1>6. CASE AnswerPage
  <2> DEFINE q == runtime.queue
             rest == runtime'.queue
             n == Len(q)
  <2>1. /\ q # <<>> /\ q[1].kind = "page" /\ runtime.changed \in BOOLEAN
        /\ runtime' = [runtime EXCEPT !.queue = Tail(q), !.changed = runtime.changed]
        /\ UNCHANGED <<archive, tree, unsaved>>
    BY <1>6, AnswerEffect DEF AnswerPage
  <2>2. Redrawn(signals, known) => Redrawn(signals', known)
    BY <1>1, <1>6, AnswerEffect
  <2>3. /\ DOMAIN q = 1..n /\ n \in Nat \ {0} /\ DOMAIN rest = 1..(n - 1)
        /\ \A i \in 1..(n - 1) : rest[i] = q[i + 1]
    <3>1. /\ DOMAIN q = 1..n /\ n \in Nat /\ 1 \in DOMAIN q /\ DOMAIN rest = 1..(n - 1)
          /\ \A i \in 1..(n - 1) : rest[i] = q[i + 1]
      BY <2>1, CommandTaken
    <3> QED
      BY <3>1
  <2> HIDE DEF q, rest, n
  <2>4. ASSUME NEW s, NEW mode, Told(s, mode, q, archive)
        PROVE  Told(s, mode, rest, archive)
    <3>1. ~IsRule(q[1], s)
      BY <2>1 DEF IsRule
    <3> QED
      BY <2>3, <2>4, <3>1, ToldTaken
  <2> QED
    BY <2>1, <2>2, <2>4, CombosKept DEF known, q, rest
<1>7. CASE StoreRule
  <2> DEFINE q == runtime.queue
             rest == runtime'.queue
             n == Len(q)
             c == q[1]
  <2>1. /\ q # <<>> /\ c \in RuleCommands /\ c.kind = "rule"
        /\ archive'.nodes = archive.nodes
        /\ \/ /\ archive'.rules = [archive.rules EXCEPT ![c.scope] = c.mode]
              /\ runtime' = [runtime EXCEPT !.queue = Tail(q), !.changed = TRUE]
              /\ unsaved' = unsaved
           \/ /\ archive' = archive
              /\ runtime' = [runtime EXCEPT !.queue = Tail(q), !.changed = runtime.changed]
              /\ runtime.changed \in BOOLEAN
              /\ unsaved' = unsaved \cup {c.scope}
    BY <1>7, StoreEffect
  <2>2. /\ DOMAIN q = 1..n /\ n \in Nat \ {0} /\ DOMAIN rest = 1..(n - 1)
        /\ \A i \in 1..(n - 1) : rest[i] = q[i + 1]
    <3>1. /\ DOMAIN q = 1..n /\ n \in Nat /\ 1 \in DOMAIN q /\ DOMAIN rest = 1..(n - 1)
          /\ \A i \in 1..(n - 1) : rest[i] = q[i + 1]
      BY <2>1, CommandTaken
    <3> QED
      BY <3>1
  <2>3. tree' = tree /\ signals' = signals
    BY <1>7 DEF StoreRule
  <2>4. archive.rules \in Rules /\ c.scope \in Scopes
    BY <1>0, <2>1 DEF Archives, Rules, RuleCommands
  <2>5. \A s : IsRule(c, s) <=> s = c.scope
    BY <2>1 DEF IsRule
  <2> HIDE DEF q, rest, n, c
  <2>6. ASSUME NEW s \in Scopes, s \notin unsaved', NEW mode, Told(s, mode, q, archive)
        PROVE  Told(s, mode, rest, archive')
    <3>1. /\ s = c.scope => archive'.rules[s] = c.mode
          /\ s # c.scope => archive'.rules[s] = archive.rules[s]
      BY <2>1, <2>4, <2>6 DEF Rules
    <3>2. /\ IsRule(q[1], s) => archive'.rules[s] = q[1].mode
          /\ ~IsRule(q[1], s) => archive'.rules[s] = archive.rules[s]
          /\ s \in archive'.nodes => s \in archive.nodes
      BY <2>1, <2>5, <3>1 DEF c
    <3> QED
      BY <2>2, <2>6, <3>2, ToldTaken
  <2>7. unsaved \subseteq unsaved' /\ tree.library.nodes \subseteq Scopes
    BY <1>0, <2>1 DEF Archives
  <2> QED
    BY <2>3, <2>6, <2>7, CombosKept DEF q, rest
<1>8. CASE ReportChange
  <2>1. /\ Send(Snapshot(archive)) /\ UNCHANGED <<archive, tree, unsaved>>
        /\ runtime'.queue = runtime.queue
    BY <1>8 DEF ReportChange, RuntimeOK
  <2>2. Redrawn(signals, known) => Redrawn(signals', known)
    BY <1>0, <1>1, <2>1
  <2> QED
    BY <2>1, <2>2, CombosKept DEF known
<1>9. CASE ReceivePage
  <2>1. /\ signals # <<>> /\ signals' = Tail(signals) /\ Head(signals).kind = "page"
        /\ UNCHANGED <<archive, runtime, tree, unsaved>>
    BY <1>9 DEF ReceivePage
  <2>2. signals[1].kind = "page"
    BY <2>1, SignalTaken
  <2>3. Redrawn(signals, known) => Redrawn(signals', known)
    BY <2>1, <2>2, RedrawnReceived
  <2> QED
    BY <2>1, <2>3, CombosKept DEF known
<1>10. CASE ReceiveSnapshot
  <2>1. /\ signals # <<>> /\ signals' = Tail(signals) /\ Head(signals).kind = "snapshot"
        /\ UNCHANGED <<archive, runtime>>
    BY <1>10 DEF ReceiveSnapshot
  <2>2. /\ Head(signals) = signals[1] /\ signals[1].kind = "snapshot"
        /\ signals[1].library \in Archives
    BY <2>1, SignalTaken, Kinds DEF Snapshots
  <2>3. CASE signals[1].library = tree.library
    <3>1. UNCHANGED <<tree, unsaved>>
      BY <1>10, <2>2, <2>3 DEF ReceiveSnapshot
    <3>2. Redrawn(signals, known) => Redrawn(signals', known)
      <4>1. known = signals[1].library
        BY <2>3 DEF known
      <4> QED
        BY <2>1, <2>2, <4>1, RedrawnReceived
    <3> QED
      BY <2>1, <3>1, <3>2, CombosKept DEF known
  <2>4. CASE signals[1].library # tree.library
    <3>1. tree'.combos = Effective(tree'.library.rules)
      BY <1>10, <2>2, <2>4, RebuildEffect DEF ReceiveSnapshot
    <3> QED
      BY <3>1 DEF CombosOK
  <2> QED
    BY <2>3, <2>4
<1>11. ASSUME NEW s \in Scopes, Click(s) PROVE CombosOK'
  <2>1. UNCHANGED <<archive, signals, tree, unsaved>>
    BY <1>11 DEF Click
  <2>2. CASE UNCHANGED runtime
    BY <2>1, <2>2 DEF CombosOK
  <2>3. ASSUME NEW c \in PageCommands, Command(c), c.kind = "page" PROVE CombosOK'
    <3> DEFINE q == runtime.queue
               more == runtime'.queue
               n == Len(q)
    <3>1. /\ DOMAIN q = 1..n /\ n \in Nat /\ DOMAIN more = 1..(n + 1)
          /\ \A i \in 1..n : more[i] = q[i]
          /\ more[n + 1] = c
      BY <2>3, Commanded
    <3> HIDE DEF q, more, n
    <3>2. ASSUME NEW t, NEW mode, Told(t, mode, q, archive) PROVE Told(t, mode, more, archive)
      <4>1. ~IsRule(more[n + 1], t)
        BY <2>3, <3>1 DEF IsRule
      <4> QED
        BY <3>1, <3>2, <4>1, ToldCommanded
    <3> QED
      BY <2>1, <3>2, CombosKept DEF q, more
  <2> QED
    BY <1>11, <2>2, <2>3, ClickEffect
<1>12. ASSUME NEW s \in Scopes, OpenMenu(s) PROVE CombosOK'
  BY <1>12 DEF OpenMenu, CombosOK
<1>13. CASE ShowMore
  <2>1. UNCHANGED <<archive, signals, tree, unsaved>>
    BY <1>13 DEF ShowMore
  <2>2. PICK c \in PageCommands : Command(c) /\ c.kind = "page"
    BY <1>13, ShowMoreEffect
  <2> DEFINE q == runtime.queue
             more == runtime'.queue
             n == Len(q)
  <2>3. /\ DOMAIN q = 1..n /\ n \in Nat /\ DOMAIN more = 1..(n + 1)
        /\ \A i \in 1..n : more[i] = q[i]
        /\ more[n + 1] = c
    BY <2>2, Commanded
  <2> HIDE DEF q, more, n
  <2>4. ASSUME NEW t, NEW mode, Told(t, mode, q, archive) PROVE Told(t, mode, more, archive)
    <3>1. ~IsRule(more[n + 1], t)
      BY <2>2, <2>3 DEF IsRule
    <3> QED
      BY <2>3, <2>4, <3>1, ToldCommanded
  <2> QED
    BY <2>1, <2>4, CombosKept DEF q, more
<1>14. ASSUME NEW s \in Scopes, NEW mode \in Modes, ChooseRule(s, mode) PROVE CombosOK'
  <2> DEFINE c == [kind |-> "rule", scope |-> s, mode |-> mode]
             q == runtime.queue
             more == runtime'.queue
             n == Len(q)
  <2>1. c \in PageCommands \cup RuleCommands /\ Command(c)
    BY <1>14 DEF RuleCommands, ChooseRule
  <2>2. c.kind = "rule" /\ c.scope = s /\ c.mode = mode
    OBVIOUS
  <2> HIDE DEF c
  <2>3. /\ DOMAIN q = 1..n /\ n \in Nat /\ DOMAIN more = 1..(n + 1)
        /\ \A i \in 1..n : more[i] = q[i]
        /\ more[n + 1] = c
    BY <2>1, Commanded
  <2>4. /\ tree' = [tree EXCEPT !.combos[s] = mode] /\ unsaved' = unsaved \ {s}
        /\ UNCHANGED <<archive, signals>>
    BY <1>14 DEF ChooseRule
  <2>5. /\ tree'.library = tree.library
        /\ tree'.combos = [tree.combos EXCEPT ![s] = mode]
    BY <2>4 DEF TreeOK
  <2> HIDE DEF q, more, n
  <2> SUFFICES ASSUME NEW t \in tree.library.nodes, t \notin unsaved',
                      tree'.combos[t] # Effective(tree.library.rules)[t],
                      ~Redrawn(signals, tree.library)
               PROVE  Told(t, tree'.combos[t], more, archive)
    BY <2>4, <2>5 DEF CombosOK, more
  <2>6. t \in Scopes
    BY <1>0 DEF Archives
  <2>7. CASE t = s
    <3>1. tree'.combos[t] = mode
      BY <1>0, <2>5, <2>7
    <3>2. IsRule(more[n + 1], t) /\ more[n + 1].mode = mode
      BY <2>2, <2>3, <2>7 DEF IsRule
    <3> QED
      BY <2>3, <3>1, <3>2, ToldCommanded
  <2>8. CASE t # s
    <3>1. tree'.combos[t] = tree.combos[t] /\ t \notin unsaved
      BY <1>0, <2>4, <2>5, <2>6, <2>8
    <3>2. Told(t, tree.combos[t], q, archive)
      BY <3>1 DEF CombosOK, q
    <3>3. ~IsRule(more[n + 1], t)
      BY <2>2, <2>3, <2>8 DEF IsRule
    <3> QED
      BY <2>3, <3>1, <3>2, <3>3, ToldCommanded
  <2> QED
    BY <2>7, <2>8
<1>15. CASE UNCHANGED vars
  BY <1>15 DEF vars, CombosOK
<1> QED
  BY <1>2, <1>3, <1>4, <1>5, <1>6, <1>7, <1>8, <1>9, <1>10, <1>11, <1>12, <1>13, <1>14, <1>15
  DEF Next, RuntimeStep, Receive, User

-----------------------------------------------------------------------------
(* Theorems *)

\* What waits in the queue, what is on its way, the tree and the window agree about
\* the archive after every step of the runtime, the window, the user and the
\* maintenance.
THEOREM Invariant == Spec => []IInv
<1>1. Init => IInv
  BY TypesInit, PagesInit, OneRequestInit, WindowInit, RulesInit DEF IInv
<1>2. IInv /\ [Next]_vars => IInv'
  <2> SUFFICES ASSUME IInv, [Next]_vars PROVE IInv'
    OBVIOUS
  <2>1. Types /\ PagesOK /\ OneRequest /\ WindowOK /\ BaseOK /\ NewestIsTrue /\ CombosOK
    BY DEF IInv, WindowOK
  <2>2. Types'
    BY <2>1, TypesStep
  <2>3. PagesOK'
    BY <2>1, PagesStep
  <2>4. OneRequest'
    BY <2>1, <2>2, OneRequestStep
  <2>5. WindowOK'
    BY <2>1, <2>2, WindowStep
  <2>6. NewestIsTrue'
    BY <2>1, NewestStep
  <2>7. CombosOK'
    BY <2>1, CombosStep
  <2> QED
    BY <2>2, <2>3, <2>4, <2>5, <2>6, <2>7 DEF IInv
<1> QED
  BY <1>1, <1>2, PTL DEF Spec

\* Whatever the page is sent and clicked, it is in a state its widgets can show:
\* above all, every combo of the tree is one of the two modes that _resolve_mode
\* can yield.
THEOREM TypeCorrect == Spec => []TypeOK
<1>1. IInv => TypeOK
  <2> SUFFICES ASSUME Types PROVE TypeOK
    BY DEF IInv
  <2>1. ToSet(view.messages) \subseteq Messages
    BY FiniteToSet DEF Types, ViewOK, Views
  <2> QED
    BY <2>1 DEF Types, ArchiveOK, RuntimeOK, TreeOK, ViewOK, Views, TypeOK
<1> QED
  BY <1>1, Invariant, PTL

\* The window of the Library page is in order, of one branch, each message once,
\* and leaves nothing out between its oldest message and what was archived when
\* the branch was opened (message_page, set_message_page): for any tree, number of
\* messages and page size, any backlog of commands and answers, with errors,
\* imports, deletions and restarts of the runtime in between.
THEOREM NoHoles == Spec => []WindowHasNoHoles
<1>1. IInv => WindowHasNoHoles
  BY DEF IInv, WindowOK
<1> QED
  BY <1>1, Invariant, PTL

\* When all that was sent has arrived, the combos of the tree show the rules that
\* an export will apply, except those whose last choice is known to be lost
\* (_rule_changed, set_export_rule, update_snapshot, rebuild).
THEOREM RulesAreTold == Spec => []CombosTellRules
<1>1. IInv => CombosTellRules
  <2> SUFFICES ASSUME Types, NewestIsTrue, CombosOK,
                      runtime.alive, runtime.queue = <<>>, ~runtime.changed, signals = <<>>,
                      NEW s \in tree.library.nodes \ unsaved
               PROVE  tree.combos[s] = Effective(archive.rules)[s]
    BY DEF IInv, CombosTellRules
  <2>1. DOMAIN signals = {} /\ DOMAIN runtime.queue = {}
    OBVIOUS
  <2>2. /\ archive \in Archives /\ tree.library \in Archives
        /\ \A t \in archive.nodes : Above(t) \ {Nothing} \subseteq archive.nodes
    BY DEF Types, ArchiveOK, TreeOK
  <2>3. tree.library = Snapshot(archive).library
    BY <2>1 DEF NewestIsTrue, Newest
  <2>4. /\ tree.library.nodes = archive.nodes
        /\ \A t \in archive.nodes : tree.library.rules[t] = archive.rules[t]
    BY <2>2, <2>3, SnapshotOf
  <2>5. /\ s \in archive.nodes /\ s \in Scopes
        /\ archive.nodes \in SUBSET Scopes
        /\ archive.rules \in Rules /\ tree.library.rules \in Rules
    BY <2>2, <2>4 DEF Archives, Rules
  <2>6. /\ Effective(tree.library.rules)[s] = Effective(archive.rules)[s]
        /\ archive.rules[s] \in Modes => Effective(archive.rules)[s] = archive.rules[s]
    <3>1. \A t \in archive.nodes : Effective(tree.library.rules)[t] = Effective(archive.rules)[t]
      BY <2>2, <2>4, <2>5, EffectiveRules
    <3>2. \A t \in Scopes : archive.rules[t] \in Modes =>
                                Effective(archive.rules)[t] = archive.rules[t]
      BY <2>2, <2>5, EffectiveRules
    <3> QED
      BY <2>5, <3>1, <3>2
  <2>7. CASE tree.combos[s] = Effective(tree.library.rules)[s]
    BY <2>6, <2>7
  <2>8. CASE tree.combos[s] # Effective(tree.library.rules)[s]
    <3>1. Told(s, tree.combos[s], runtime.queue, archive)
      BY <2>1, <2>8 DEF CombosOK, Redrawn
    <3>2. archive.rules[s] = tree.combos[s]
      BY <2>1, <2>5, <3>1 DEF Told
    <3>3. tree.combos[s] \in Modes
      BY <2>5 DEF Types, TreeOK
    <3> QED
      BY <2>6, <3>2, <3>3
  <2> QED
    BY <2>7, <2>8
<1> QED
  BY <1>1, Invariant, PTL
===============================================================================
