--------------------------- MODULE BodyGuardsProofs ---------------------------
(***************************************************************************)
(* Proofs about JsonDepth and BodyGuards, for bodies of every length, in   *)
(* any chunks, and for every limit.                                        *)
(***************************************************************************)
EXTENDS BodyGuards, TLAPS

USE NestingAssumption

InText == {"out", "in", "escaped"}

(* A scan counts at least the brackets that are open. *)
Sane(s) == s.depth <= s.max

(* What counting a character does, the brackets apart from the rest. *)
LEMMA CountedIs ==
  ASSUME NEW M, NEW s \in Scans(M), NEW c \in Characters, Sane(s)
  PROVE  /\ Counted(s, c) \in Scans(M)
         /\ Counted(s, c).mode = s.mode
         /\ Counted(s, c).max >= s.max
         /\ Sane(Counted(s, c))
         /\ c \notin {"open", "close"} => Counted(s, c) = s
<1>1. /\ s = [mode |-> s.mode, depth |-> s.depth, max |-> s.max]
      /\ s.mode \in M /\ s.depth \in Int /\ s.max \in Nat
      /\ s.depth <= s.max
  BY DEF Scans, Sane
<1>2. CASE c = "open"
  <2> DEFINE m == IF s.depth + 1 > s.max THEN s.depth + 1 ELSE s.max
  <2>1. /\ s.depth + 1 \in Int /\ m \in Nat /\ m >= s.max /\ s.depth + 1 <= m
    BY <1>1
  <2>2. Counted(s, c) = [s EXCEPT !.depth = s.depth + 1, !.max = m]
    BY <1>2 DEF Counted
  <2> HIDE DEF m
  <2>3. Counted(s, c) = [mode |-> s.mode, depth |-> s.depth + 1, max |-> m]
    BY <1>1, <2>2
  <2>4. QED  BY <1>1, <1>2, <2>1, <2>3 DEF Scans, Sane
<1>3. CASE c = "close"
  <2>1. Counted(s, c) = [s EXCEPT !.depth = s.depth - 1]
    BY <1>3 DEF Counted
  <2>2. Counted(s, c) = [mode |-> s.mode, depth |-> s.depth - 1, max |-> s.max]
    BY <1>1, <2>1
  <2>3. QED  BY <1>1, <1>3, <2>2 DEF Scans, Sane
<1>4. CASE c \notin {"open", "close"}
  <2>1. Counted(s, c) = s
    BY <1>4 DEF Counted
  <2>2. QED  BY <1>1, <1>4, <2>1 DEF Sane
<1>5. QED  BY <1>2, <1>3, <1>4

(* Changing the mode of a scan changes nothing else. *)
LEMMA ModeIs ==
  ASSUME NEW M, NEW s \in Scans(M), NEW mode
  PROVE  LET t == [s EXCEPT !.mode = mode]
         IN  /\ t.mode = mode /\ t.depth = s.depth /\ t.max = s.max
             /\ \A N : mode \in N => t \in Scans(N)
             /\ Sane(s) => Sane(t)
<1>1. /\ s = [mode |-> s.mode, depth |-> s.depth, max |-> s.max]
      /\ s.mode \in M /\ s.depth \in Int /\ s.max \in Nat
  BY DEF Scans
<1>2. [s EXCEPT !.mode = mode] = [mode |-> mode, depth |-> s.depth, max |-> s.max]
  BY <1>1
<1>3. QED  BY <1>1, <1>2 DEF Scans, Sane

(* Each character leaves a scan a scan, and the most brackets that were    *)
(* open can only grow.                                                     *)
LEMMA LoopType ==
  ASSUME NEW s \in Scans(InText), NEW c \in Characters, Sane(s)
  PROVE  /\ CharacterLoop(s, c) \in Scans(InText)
         /\ CharacterLoop(s, c).max >= s.max
         /\ Sane(CharacterLoop(s, c))
<1> DEFINE t == CharacterLoop(s, c)
<1>1. /\ s.mode \in InText /\ s.max \in Nat
      /\ Toggle(s.mode) \in InText /\ {"in", "escaped"} \subseteq InText
  BY DEF Scans, InText, Toggle
<1>2. \/ t = s
      \/ t = Counted(s, c)
      \/ \E mode \in InText : t = [s EXCEPT !.mode = mode]
  BY <1>1 DEF CharacterLoop
<1> HIDE DEF t
<1>3. CASE t = s
  BY <1>1, <1>3 DEF t
<1>4. CASE t = Counted(s, c)
  BY <1>4, CountedIs DEF t
<1>5. CASE \E mode \in InText : t = [s EXCEPT !.mode = mode]
  <2>1. PICK mode \in InText : t = [s EXCEPT !.mode = mode]
    BY <1>5
  <2>2. t.max = s.max /\ t \in Scans(InText) /\ Sane(t)
    BY <2>1, ModeIs
  <2>3. QED  BY <1>1, <2>2 DEF t
<1>6. QED  BY <1>2, <1>3, <1>4, <1>5

(* The same for the regular expression. *)
LEMMA RegexType ==
  ASSUME NEW s \in Scans(InText \union {"skipping"}), NEW c \in Characters,
         Sane(s)
  PROVE  /\ RegexTokens(s, c) \in Scans(InText \union {"skipping"})
         /\ RegexTokens(s, c).max >= s.max
         /\ Sane(RegexTokens(s, c))
<1> DEFINE t == RegexTokens(s, c)
           M == InText \union {"skipping"}
<1>1. /\ s.mode \in M /\ s.max \in Nat
      /\ Toggle(s.mode) \in M /\ {"in", "out", "escaped", "skipping"} \subseteq M
  BY DEF Scans, InText, Toggle
<1>2. \/ t = s
      \/ t = Counted(s, c)
      \/ \E mode \in M : t = [s EXCEPT !.mode = mode]
  BY <1>1 DEF RegexTokens
<1> HIDE DEF t, M
<1>3. CASE t = s
  BY <1>1, <1>3 DEF t, M
<1>4. CASE t = Counted(s, c)
  BY <1>4, CountedIs DEF t, M
<1>5. CASE \E mode \in M : t = [s EXCEPT !.mode = mode]
  <2>1. PICK mode \in M : t = [s EXCEPT !.mode = mode]
    BY <1>5
  <2>2. t.max = s.max /\ t \in Scans(M) /\ Sane(t)
    BY <2>1, ModeIs DEF M
  <2>3. QED  BY <1>1, <2>2 DEF t, M
<1>6. QED  BY <1>2, <1>3, <1>4, <1>5

(* The same for a parser, which never has a negative number of brackets    *)
(* open.                                                                   *)
LEMMA GrammarType ==
  ASSUME NEW s \in Scans(InText \union {"malformed"}), NEW c \in Characters,
         s.depth \in Nat, Sane(s)
  PROVE  /\ Grammar(s, c) \in Scans(InText \union {"malformed"})
         /\ Grammar(s, c).depth \in Nat
         /\ Sane(Grammar(s, c))
         /\ s.mode = "malformed" => Grammar(s, c) = s
         /\ Grammar(s, c).mode = "malformed" => Grammar(s, c).max = s.max
<1> DEFINE t == Grammar(s, c)
           M == InText \union {"malformed"}
<1>1. /\ s = [mode |-> s.mode, depth |-> s.depth, max |-> s.max]
      /\ s.mode \in M /\ s.depth \in Nat /\ s.max \in Nat /\ s.depth <= s.max
      /\ {"in", "out", "escaped", "malformed"} \subseteq M
  BY DEF Scans, InText, Sane
<1>2. \/ t = s
      \/ \E mode \in M : t = [s EXCEPT !.mode = mode]
      \/ /\ s.depth # 0 /\ s.mode = "out"
         /\ t = [s EXCEPT !.depth = s.depth - 1]
      \/ /\ s.mode = "out"
         /\ t = [s EXCEPT !.depth = s.depth + 1,
                          !.max = IF s.depth = s.max THEN s.max + 1 ELSE s.max]
  BY <1>1 DEF Grammar, InText, Characters
<1>3. s.mode = "malformed" => t = s
  BY DEF Grammar
<1> HIDE DEF t, M
<1>4. CASE t = s
  BY <1>1, <1>4 DEF t, M, Sane
<1>5. CASE \E mode \in M : t = [s EXCEPT !.mode = mode]
  BY <1>1, <1>3, <1>5, ModeIs DEF t, M, Sane
<1>6. CASE s.depth # 0 /\ s.mode = "out" /\ t = [s EXCEPT !.depth = s.depth - 1]
  <2>1. t = [mode |-> s.mode, depth |-> s.depth - 1, max |-> s.max]
    BY <1>1, <1>6
  <2>2. QED  BY <1>1, <1>6, <2>1 DEF t, M, Scans, Sane
<1>7. CASE /\ s.mode = "out"
           /\ t = [s EXCEPT !.depth = s.depth + 1,
                            !.max = IF s.depth = s.max THEN s.max + 1 ELSE s.max]
  <2> DEFINE m == IF s.depth = s.max THEN s.max + 1 ELSE s.max
  <2>1. /\ s.depth + 1 \in Nat /\ m \in Nat /\ s.depth + 1 <= m
    BY <1>1
  <2>2. t = [s EXCEPT !.depth = s.depth + 1, !.max = m]
    BY <1>7
  <2> HIDE DEF m
  <2>3. t = [mode |-> s.mode, depth |-> s.depth + 1, max |-> m]
    BY <1>1, <2>2
  <2>4. QED  BY <1>1, <1>7, <2>1, <2>3 DEF t, M, Scans, Sane
<1>8. QED  BY <1>2, <1>4, <1>5, <1>6, <1>7

(* On a character that a JSON text may have there, both scans do what a    *)
(* parser does.                                                            *)
LEMMA ScansFollowTheGrammar ==
  ASSUME NEW s \in Scans(InText), NEW c \in Characters,
         s.depth \in Nat, Sane(s), Grammar(s, c).mode # "malformed"
  PROVE  /\ CharacterLoop(s, c) = Grammar(s, c)
         /\ ~TooDeep(s) => RegexTokens(s, c) = Grammar(s, c)
<1>1. /\ s = [mode |-> s.mode, depth |-> s.depth, max |-> s.max]
      /\ s.mode \in InText /\ s.depth \in Nat /\ s.max \in Nat
      /\ s.depth <= s.max
  BY DEF Scans, Sane
<1>2. CASE s.mode = "escaped"
  BY <1>2 DEF CharacterLoop, RegexTokens, Grammar
<1>3. CASE s.mode = "in"
  <2>1. s = [s EXCEPT !.mode = "in"]
    BY <1>1, <1>3
  <2>2. QED
    BY <1>3, <2>1 DEF CharacterLoop, RegexTokens, Grammar, Toggle, Characters
<1>4. CASE s.mode = "out"
  <2>1. CASE c = "quote"
    BY <1>4, <2>1 DEF CharacterLoop, RegexTokens, Grammar, Toggle
  <2>2. CASE c = "backslash"
    <3>1. Grammar(s, c) = [s EXCEPT !.mode = "malformed"]
      BY <1>4, <2>2 DEF Grammar
    <3>2. QED  BY <3>1, ModeIs
  <2>3. CASE c = "other"
    BY <1>4, <2>3, CountedIs DEF CharacterLoop, RegexTokens, Grammar
  <2>4. CASE c = "close"
    <3>1. s.depth # 0
      <4> SUFFICES ASSUME s.depth = 0 PROVE FALSE
        OBVIOUS
      <4>1. Grammar(s, c) = [s EXCEPT !.mode = "malformed"]
        BY <1>4, <2>4 DEF Grammar
      <4>2. [s EXCEPT !.mode = "malformed"].mode = "malformed"
        BY ModeIs
      <4>3. QED  BY <4>1, <4>2
    <3>2. Grammar(s, c) = Counted(s, c)
      BY <1>4, <2>4, <3>1 DEF Grammar, Counted
    <3>3. QED
      BY <1>4, <2>4, <3>1, <3>2 DEF CharacterLoop, RegexTokens
  <2>5. CASE c = "open"
    <3>1. (IF s.depth = s.max THEN s.max + 1 ELSE s.max) =
            (IF s.depth + 1 > s.max THEN s.depth + 1 ELSE s.max)
      BY <1>1
    <3>2. Grammar(s, c) = [s EXCEPT !.depth = s.depth + 1,
                                    !.max = IF s.depth = s.max
                                            THEN s.max + 1 ELSE s.max]
      BY <1>4, <2>5 DEF Grammar
    <3>3. Counted(s, c) = [s EXCEPT !.depth = s.depth + 1,
                                    !.max = IF s.depth + 1 > s.max
                                            THEN s.depth + 1 ELSE s.max]
      BY <2>5 DEF Counted
    <3>4. QED
      BY <1>4, <2>5, <3>1, <3>2, <3>3 DEF CharacterLoop, RegexTokens
  <2>6. QED  BY <2>1, <2>2, <2>3, <2>4, <2>5 DEF Characters
<1>5. QED  BY <1>1, <1>2, <1>3, <1>4 DEF InText
-----------------------------------------------------------------------------
(* The inductive invariant: a scan that has not given its verdict is at    *)
(* the same point as the scan it is compared with.                         *)
Typed ==
  /\ text \in Scans(InText \union {"malformed"}) /\ text.depth \in Nat
  /\ node \in Scans(InText)
  /\ go \in Scans(InText)
  /\ python \in Scans(InText \union {"skipping"})
  /\ Sane(text) /\ Sane(node) /\ Sane(go) /\ Sane(python)

GoFollowsNode == GoMirrorsNode /\ (~TooDeep(node) => go = node)

PythonFollowsText ==
  text.mode # "malformed" =>
    /\ TooDeep(python) <=> TooDeep(text)
    /\ ~TooDeep(python) => python = text

GuardInv ==
  Typed /\ NodeKnowsTheNesting /\ GoFollowsNode /\ PythonFollowsText
  /\ ParserProtected

(* One character preserves the invariant. *)
LEMMA FeedStep ==
  ASSUME GuardInv, NEW c \in Characters, Feed(c)
  PROVE  GuardInv'
<1>1. /\ text' = Grammar(text, c)
      /\ node' = CharacterLoop(node, c)
      /\ go' = ByteLoop(go, c)
      /\ python' = RegexTokens(python, c)
  BY DEF Feed
<1>2. /\ text' \in Scans(InText \union {"malformed"})
      /\ text'.depth \in Nat /\ Sane(text')
      /\ text.mode = "malformed" => text' = text
      /\ text'.mode = "malformed" => text'.max = text.max
  BY <1>1, GrammarType DEF GuardInv, Typed
<1>3. node' \in Scans(InText) /\ node'.max >= node.max /\ Sane(node')
  BY <1>1, LoopType DEF GuardInv, Typed
<1>4. /\ python' \in Scans(InText \union {"skipping"})
      /\ python'.max >= python.max /\ Sane(python')
  BY <1>1, RegexType DEF GuardInv, Typed
<1>5. go' \in Scans(InText) /\ go'.max >= go.max /\ Sane(go')
  <2>1. CASE TooDeep(go)
    <3>1. go' = go
      BY <1>1, <2>1 DEF ByteLoop
    <3>2. QED  BY <3>1 DEF GuardInv, Typed, Scans
  <2>2. CASE ~TooDeep(go)
    BY <1>1, <2>2, LoopType DEF ByteLoop, GuardInv, Typed
  <2>3. QED  BY <2>1, <2>2
<1>6. Typed'
  BY <1>2, <1>3, <1>4, <1>5 DEF Typed, Sane
<1>7. \A s, t \in Scans(InText \union {"skipping", "malformed"}) :
        t.max >= s.max /\ TooDeep(s) => TooDeep(t)
  BY DEF TooDeep, Scans
<1>8. /\ {text, text', node, node', go, go', python, python'}
           \subseteq Scans(InText \union {"skipping", "malformed"})
      /\ text.max \in Nat /\ text'.max \in Nat
  BY <1>6 DEF GuardInv, Typed, Scans
<1>9. /\ TooDeep(node) => TooDeep(node)'
      /\ TooDeep(go) => TooDeep(go)'
      /\ TooDeep(python) => TooDeep(python)'
  BY <1>3, <1>4, <1>5, <1>7, <1>8 DEF TooDeep
<1>10. NodeKnowsTheNesting'
  <2> SUFFICES ASSUME text'.mode # "malformed" PROVE node' = text'
    BY DEF NodeKnowsTheNesting
  <2>1. text.mode # "malformed" /\ node = text
    BY <1>2 DEF GuardInv, NodeKnowsTheNesting
  <2>2. text \in Scans(InText) /\ text.depth \in Nat /\ Sane(text)
    BY <2>1 DEF GuardInv, Typed
  <2>3. QED  BY <1>1, <2>1, <2>2, ScansFollowTheGrammar
<1>11. GoFollowsNode'
  <2>1. CASE TooDeep(node)
    <3>1. TooDeep(node)' /\ TooDeep(go)'
      BY <1>9, <2>1 DEF GuardInv, GoFollowsNode, GoMirrorsNode
    <3>2. QED  BY <3>1 DEF GoFollowsNode, GoMirrorsNode
  <2>2. CASE ~TooDeep(node)
    <3>1. ~TooDeep(go) /\ go = node
      BY <2>2 DEF GuardInv, GoFollowsNode, GoMirrorsNode
    <3>2. go' = node'
      BY <1>1, <3>1 DEF ByteLoop
    <3>3. QED  BY <3>2 DEF GoFollowsNode, GoMirrorsNode, TooDeep
  <2>3. QED  BY <2>1, <2>2
<1>12. PythonFollowsText'
  <2> SUFFICES ASSUME text'.mode # "malformed"
               PROVE  /\ TooDeep(python)' <=> TooDeep(text)'
                      /\ ~TooDeep(python)' => python' = text'
    BY DEF PythonFollowsText
  <2>1. text.mode # "malformed" /\ node = text /\ node' = text'
    BY <1>2, <1>10 DEF GuardInv, NodeKnowsTheNesting
  <2>2. text \in Scans(InText) /\ text.depth \in Nat /\ Sane(text)
    BY <2>1 DEF GuardInv, Typed
  <2>3. CASE TooDeep(python)
    <3>1. TooDeep(text)
      BY <2>1, <2>3 DEF GuardInv, PythonFollowsText
    <3>2. TooDeep(python)' /\ TooDeep(node)'
      BY <1>9, <2>1, <2>3, <3>1 DEF TooDeep
    <3>3. QED  BY <2>1, <3>2 DEF TooDeep
  <2>4. CASE ~TooDeep(python)
    <3>1. python = text
      BY <2>1, <2>4 DEF GuardInv, PythonFollowsText
    <3>2. python' = text'
      BY <1>1, <2>2, <2>4, <3>1, ScansFollowTheGrammar
    <3>3. QED  BY <3>2 DEF TooDeep
  <2>5. QED  BY <2>3, <2>4
<1>13. ParserProtected'
  <2> SUFFICES ASSUME text'.max > MaxNesting
               PROVE  TooDeep(node)' /\ TooDeep(go)' /\ TooDeep(python)'
    BY DEF ParserProtected
  <2>1. CASE text'.mode = "malformed"
    <3>1. text.max > MaxNesting
      BY <1>2, <2>1
    <3>2. QED  BY <1>9, <3>1 DEF GuardInv, ParserProtected
  <2>2. CASE text'.mode # "malformed"
    <3>1. TooDeep(node)'
      BY <1>10, <2>2 DEF NodeKnowsTheNesting, TooDeep
    <3>2. TooDeep(go)'
      BY <1>11, <3>1 DEF GoFollowsNode, GoMirrorsNode
    <3>3. TooDeep(python)'
      BY <1>12, <2>2 DEF PythonFollowsText, TooDeep
    <3>4. QED  BY <3>1, <3>2, <3>3
  <2>3. QED  BY <2>1, <2>2
<1>14. QED
  BY <1>6, <1>10, <1>11, <1>12, <1>13 DEF GuardInv

(* The invariant holds of every body. *)
THEOREM GuardInvariance == Spec => []GuardInv
<1>1. Init => GuardInv
  BY DEF Init, Start, GuardInv, Typed, Scans, InText, Sane, TooDeep,
     NodeKnowsTheNesting, GoFollowsNode, GoMirrorsNode, PythonFollowsText,
     ParserProtected
<1>2. GuardInv /\ [Next]_vars => GuardInv'
  <2> SUFFICES ASSUME GuardInv, [Next]_vars PROVE GuardInv'
    OBVIOUS
  <2>1. CASE \E c \in Characters : Feed(c)
    BY <2>1, FeedStep
  <2>2. CASE UNCHANGED vars
    BY <2>2 DEF vars, GuardInv, Typed, Sane, TooDeep,
       NodeKnowsTheNesting, GoFollowsNode, GoMirrorsNode, PythonFollowsText,
       ParserProtected
  <2>3. QED  BY <2>1, <2>2 DEF Next
<1>3. QED  BY <1>1, <1>2, PTL DEF Spec

(* Of well-formed JSON of any length, the Node scan knows the exact        *)
(* nesting, and all three guards give its verdict.                         *)
THEOREM GuardsAreExact == Spec => [](NodeKnowsTheNesting /\ VerdictsAgree)
<1>1. GuardInv => NodeKnowsTheNesting /\ VerdictsAgree
  BY DEF GuardInv, NodeKnowsTheNesting, VerdictsAgree, GoFollowsNode,
     GoMirrorsNode, PythonFollowsText, TooDeep
<1>2. QED  BY <1>1, GuardInvariance, PTL

(* Go refuses what Node refuses, whatever the body. *)
THEOREM GoIsNode == Spec => []GoMirrorsNode
<1>1. GuardInv => GoMirrorsNode
  BY DEF GuardInv, GoFollowsNode
<1>2. QED  BY <1>1, GuardInvariance, PTL

(* No parser meets a nesting over the limit, even in a malformed body.     *)
THEOREM ParsersAreProtected == Spec => []ParserProtected
<1>1. GuardInv => ParserProtected
  BY DEF GuardInv
<1>2. QED  BY <1>1, GuardInvariance, PTL
-----------------------------------------------------------------------------
(* BodyGuards.                                                             *)

USE BodySizeAssumption

Service == [reading : BOOLEAN, kept : Nat,
            reply : {"none", "400", "413", "parsed", "closed"}]

BodyTyped ==
  /\ length \in Nat /\ chunk \in 0..length
  /\ declared \in Nat \union {Unknown}
  /\ declared # Unknown => length <= declared
  /\ stream \in {"headers", "open", "ended", "cut"}
  /\ stream = "headers" => length = 0
  /\ stream = "ended" => declared \in {Unknown, length}
  /\ service \in [Services -> Service]

(* What a service kept while it reads is all that was delivered; it stops  *)
(* reading with its reply.                                                 *)
Reading(s) ==
  /\ s.reading <=> s.reply = "none"
  /\ s.reading => stream \in {"headers", "open"} /\ s.kept = length - chunk

(* What is known of the body when a reply stands.  "early": the values of  *)
(* the header that the service refuses before it reads.                    *)
Replied(s, scan, early) ==
  /\ s.reply = "parsed" =>
       /\ stream = "ended"
       /\ s.kept = length /\ 0 < length /\ length <= MaxBodySize
       /\ ~TooDeep(scan)
  /\ s.reply = "413" => length > MaxBodySize \/ declared > MaxBodySize
  /\ s.reply = "400" =>
       \/ declared \in early
       \/ /\ stream = "ended" /\ length <= MaxBodySize
          /\ length = 0 \/ TooDeep(scan)

Known(s, scan, early) == Reading(s) /\ Replied(s, scan, early)

NodeKnown ==
  /\ Known(service.node, node, {0, Unknown})
  /\ service.node.reply = "closed" => stream = "cut"
  /\ stream = "headers" => service.node.reading
  /\ stream # "headers" /\ service.node.reading => declared \notin {0, Unknown}
  /\ service.node.kept <= MaxBodySize

GoKnown ==
  Known(service.go, go, {}) /\ service.go.kept <= MaxBodySize

PythonKnown ==
  /\ Known(service.python, python, {})
  /\ service.python.reply = "closed" => stream = "cut"
  /\ stream # "headers" /\ service.python.reading => declared <= MaxBodySize
  /\ declared # Unknown => service.python.kept <= MaxBodySize

BodyInv == GuardInv /\ BodyTyped /\ NodeKnown /\ GoKnown /\ PythonKnown

(* A reply leaves what was kept as it is. *)
LEMMA AnswerIs ==
  ASSUME NEW s \in Service, NEW reply \in {"400", "413", "parsed", "closed"}
  PROVE  /\ Answer(s, reply) \in Service
         /\ Answer(s, reply).reading = FALSE
         /\ Answer(s, reply).kept = s.kept
         /\ Answer(s, reply).reply = reply
BY DEF Service, Answer

(* A chunk is kept and changes nothing else. *)
LEMMA KeptIs ==
  ASSUME NEW s \in Service, NEW n \in Nat
  PROVE  LET t == [s EXCEPT !.kept = @ + n]
         IN  /\ t \in Service /\ t.reading = s.reading
             /\ t.kept = s.kept + n /\ t.reply = s.reply
BY DEF Service

(* Before the first byte the invariant holds. *)
LEMMA BodyInitial ==
  ASSUME BodyInit
  PROVE  BodyInv
<1>1. GuardInv
  BY DEF BodyInit, Init, Start, GuardInv, Typed, Scans, InText, Sane, TooDeep,
     NodeKnowsTheNesting, GoFollowsNode, GoMirrorsNode, PythonFollowsText,
     ParserProtected
<1>2. BodyTyped
  BY DEF BodyInit, Init, BodyTyped, Service, Unknown
<1>3. /\ service.node = [reading |-> TRUE, kept |-> 0, reply |-> "none"]
      /\ service.go = [reading |-> TRUE, kept |-> 0, reply |-> "none"]
      /\ service.python = [reading |-> TRUE, kept |-> 0, reply |-> "none"]
  BY DEF BodyInit, Services
<1>4. NodeKnown /\ GoKnown /\ PythonKnown
  BY <1>3 DEF BodyInit, Init, NodeKnown, GoKnown, PythonKnown, Known, Reading,
     Replied
<1>5. QED  BY <1>1, <1>2, <1>4 DEF BodyInv

(* A step that feeds no character leaves the scans alone. *)
LEMMA ScansStay ==
  ASSUME GuardInv, UNCHANGED vars
  PROVE  GuardInv'
BY DEF vars, GuardInv, Typed, Sane, TooDeep, NodeKnowsTheNesting, GoFollowsNode,
   GoMirrorsNode, PythonFollowsText, ParserProtected

(* A declared length over the limit is refused where it is looked at. *)
LEMMA HeadersStep ==
  ASSUME BodyInv, Headers
  PROVE  BodyInv'
<1> DEFINE n == service.node
           g == service.go
           p == service.python
<1>1. /\ n \in Service /\ g \in Service /\ p \in Service
      /\ service'.node = RequireBody(n)
      /\ service'.go = DeclaredSize(g)
      /\ service'.python = DeclaredSize(p)
  BY DEF BodyInv, BodyTyped, Headers, Services
<1>2. GuardInv'
  BY ScansStay DEF BodyInv, Headers
<1>3. /\ RequireBody(n) \in Service /\ RequireBody(n).kept = n.kept
      /\ \/ declared \notin {0, Unknown} /\ RequireBody(n) = n
         \/ /\ declared \in {0, Unknown} /\ ~RequireBody(n).reading
            /\ RequireBody(n).reply = "400"
  BY <1>1, AnswerIs DEF RequireBody
<1>4. \A s \in Service :
        /\ DeclaredSize(s) \in Service /\ DeclaredSize(s).kept = s.kept
        /\ \/ ~(s.reading /\ declared > MaxBodySize) /\ DeclaredSize(s) = s
           \/ /\ declared > MaxBodySize /\ ~DeclaredSize(s).reading
              /\ DeclaredSize(s).reply = "413"
  BY AnswerIs DEF DeclaredSize
<1>5. BodyTyped'
  BY <1>1, <1>3, <1>4 DEF BodyInv, BodyTyped, Headers, Services, vars
<1>6. NodeKnown'
  BY <1>1, <1>3
     DEF BodyInv, BodyTyped, Headers, vars, NodeKnown, Known, Reading, Replied,
         TooDeep
<1>7. GoKnown'
  BY <1>1, <1>4
     DEF BodyInv, BodyTyped, Headers, vars, GoKnown, Known, Reading, Replied,
         TooDeep
<1>8. PythonKnown'
  BY <1>1, <1>4
     DEF BodyInv, BodyTyped, Headers, vars, PythonKnown, Known, Reading, Replied,
         TooDeep, Unknown
<1>9. QED  BY <1>2, <1>5, <1>6, <1>7, <1>8 DEF BodyInv

(* A character on the wire has not reached any service. *)
LEMMA SendStep ==
  ASSUME BodyInv, NEW c \in Characters, Send(c)
  PROVE  BodyInv'
<1>1. /\ stream = "open" /\ stream' = "open" /\ length' = length + 1
      /\ chunk' = chunk + 1 /\ declared' = declared /\ service' = service
      /\ declared = Unknown \/ length < declared
  BY DEF Send, Feed
<1>2. GuardInv'
  BY FeedStep DEF BodyInv, Send
<1>3. BodyTyped'
  BY <1>1 DEF BodyInv, BodyTyped, Unknown
<1>4. NodeKnown'
  BY <1>1 DEF BodyInv, BodyTyped, NodeKnown, Known, Reading, Replied
<1>5. GoKnown'
  BY <1>1 DEF BodyInv, BodyTyped, GoKnown, Known, Reading, Replied
<1>6. PythonKnown'
  BY <1>1 DEF BodyInv, BodyTyped, PythonKnown, Known, Reading, Replied
<1>7. QED  BY <1>2, <1>3, <1>4, <1>5, <1>6 DEF BodyInv

(* A chunk is kept if it fits, and refused if it does not. *)
LEMMA DeliverStep ==
  ASSUME BodyInv, Deliver
  PROVE  BodyInv'
<1> DEFINE n == service.node
           g == service.go
           p == service.python
<1>1. /\ n \in Service /\ g \in Service /\ p \in Service
      /\ service'.node = HookChunk(n)
      /\ service'.go = HookChunk(g)
      /\ service'.python = RequestBody(p)
  BY DEF BodyInv, BodyTyped, Deliver, Services, BodyLimit
<1>2. GuardInv'
  BY ScansStay DEF BodyInv, Deliver
<1>3. /\ chunk \in Nat /\ chunk' = 0 /\ length' = length /\ stream' = stream
      /\ declared' = declared /\ UNCHANGED <<node, go, python>>
      /\ length \in Nat /\ declared \in Int
  BY DEF BodyInv, BodyTyped, Deliver, vars, Unknown
<1>4. \A s \in Service :
        /\ HookChunk(s) \in Service
        /\ \/ ~s.reading /\ HookChunk(s) = s
           \/ /\ s.reading /\ s.kept + chunk > MaxBodySize
              /\ ~HookChunk(s).reading /\ HookChunk(s).kept = s.kept
              /\ HookChunk(s).reply = "413"
           \/ /\ s.reading /\ s.kept + chunk <= MaxBodySize
              /\ HookChunk(s).reading /\ HookChunk(s).kept = s.kept + chunk
              /\ HookChunk(s).reply = s.reply
  <2> SUFFICES ASSUME NEW s \in Service
      PROVE  /\ HookChunk(s) \in Service
             /\ \/ ~s.reading /\ HookChunk(s) = s
                \/ /\ s.reading /\ s.kept + chunk > MaxBodySize
                   /\ ~HookChunk(s).reading /\ HookChunk(s).kept = s.kept
                   /\ HookChunk(s).reply = "413"
                \/ /\ s.reading /\ s.kept + chunk <= MaxBodySize
                   /\ HookChunk(s).reading /\ HookChunk(s).kept = s.kept + chunk
                   /\ HookChunk(s).reply = s.reply
    OBVIOUS
  <2>1. s.kept + chunk > MaxBodySize \/ s.kept + chunk <= MaxBodySize
    BY <1>3 DEF Service
  <2>2. QED  BY <1>3, <2>1, AnswerIs, KeptIs DEF HookChunk
<1>5. /\ RequestBody(p) \in Service
      /\ \/ ~p.reading /\ RequestBody(p) = p
         \/ /\ p.reading /\ RequestBody(p).reading
            /\ RequestBody(p).kept = p.kept + chunk
            /\ RequestBody(p).reply = p.reply
  BY <1>1, <1>3, KeptIs DEF RequestBody
<1>6. BodyTyped'
  BY <1>1, <1>3, <1>4, <1>5 DEF BodyInv, BodyTyped, Deliver, Services
<1>7. NodeKnown'
  BY <1>1, <1>3, <1>4
     DEF BodyInv, BodyTyped, NodeKnown, Known, Reading, Replied, TooDeep, Deliver
<1>8. GoKnown'
  BY <1>1, <1>3, <1>4
     DEF BodyInv, BodyTyped, GoKnown, Known, Reading, Replied, TooDeep, Deliver
<1>9. PythonKnown'
  BY <1>1, <1>3, <1>5
     DEF BodyInv, BodyTyped, PythonKnown, Known, Reading, Replied, TooDeep, Deliver
<1>10. QED  BY <1>2, <1>6, <1>7, <1>8, <1>9 DEF BodyInv

(* The end of the body finds all of it kept, or a reply given. *)
LEMMA EndStep ==
  ASSUME BodyInv, End
  PROVE  BodyInv'
<1> DEFINE n == service.node
           g == service.go
           p == service.python
<1>1. /\ n \in Service /\ g \in Service /\ p \in Service
      /\ service'.node = HookEnd(n)
      /\ service'.go = LevelOrderHandler(g)
      /\ service'.python = LevelOrder(p)
  BY DEF BodyInv, BodyTyped, End, Services
<1>2. GuardInv'
  BY ScansStay DEF BodyInv, End
<1>3. /\ chunk = 0 /\ chunk' = 0 /\ length' = length
      /\ stream = "open" /\ stream' = "ended"
      /\ declared' = declared /\ UNCHANGED <<node, go, python>>
      /\ declared \in {Unknown, length} /\ length \in Nat
  BY DEF BodyInv, BodyTyped, End, vars
<1>4. /\ \A s \in Service : \A scan :
           /\ Measured(s, scan) \in Service
           /\ ~Measured(s, scan).reading /\ Measured(s, scan).kept = s.kept
           /\ Measured(s, scan).reply = IF TooDeep(scan) THEN "400" ELSE "parsed"
  BY AnswerIs DEF Measured
<1>5. /\ HookEnd(n) \in Service /\ HookEnd(n).kept = n.kept
      /\ \/ ~n.reading /\ HookEnd(n) = n
         \/ /\ n.reading /\ ~HookEnd(n).reading
            /\ HookEnd(n).reply = IF TooDeep(node) THEN "400" ELSE "parsed"
  BY <1>1, <1>4 DEF HookEnd
<1>6. /\ LevelOrderHandler(g) \in Service /\ LevelOrderHandler(g).kept = g.kept
      /\ \/ ~g.reading /\ LevelOrderHandler(g) = g
         \/ /\ g.reading /\ ~LevelOrderHandler(g).reading
            /\ \/ g.kept = 0 /\ LevelOrderHandler(g).reply = "400"
               \/ /\ g.kept # 0
                  /\ LevelOrderHandler(g).reply =
                       IF TooDeep(go) THEN "400" ELSE "parsed"
  <2>1. CASE ~g.reading
    BY <1>1, <2>1 DEF LevelOrderHandler
  <2>2. CASE g.reading /\ g.kept = 0
    <3>1. LevelOrderHandler(g) = Answer(g, "400")
      BY <2>2 DEF LevelOrderHandler
    <3>2. /\ Answer(g, "400") \in Service
          /\ Answer(g, "400").reading = FALSE
          /\ Answer(g, "400").kept = g.kept
          /\ Answer(g, "400").reply = "400"
      BY <1>1, AnswerIs
    <3>3. QED  BY <2>2, <3>1, <3>2
  <2>3. CASE g.reading /\ g.kept # 0
    <3>1. LevelOrderHandler(g) = Measured(g, go)
      BY <2>3 DEF LevelOrderHandler
    <3>2. QED  BY <1>1, <1>4, <2>3, <3>1
  <2>4. QED  BY <2>1, <2>2, <2>3
<1>7. /\ LevelOrder(p) \in Service /\ LevelOrder(p).kept = p.kept
      /\ \/ ~p.reading /\ LevelOrder(p) = p
         \/ /\ p.reading /\ ~LevelOrder(p).reading
            /\ \/ p.kept = 0 /\ LevelOrder(p).reply = "400"
               \/ p.kept > MaxBodySize /\ LevelOrder(p).reply = "413"
               \/ /\ p.kept # 0 /\ ~(p.kept > MaxBodySize)
                  /\ LevelOrder(p).reply =
                       IF TooDeep(python) THEN "400" ELSE "parsed"
  <2>1. CASE ~p.reading
    BY <1>1, <2>1 DEF LevelOrder
  <2>2. CASE p.reading /\ p.kept = 0
    <3>1. LevelOrder(p) = Answer(p, "400")
      BY <2>2 DEF LevelOrder
    <3>2. /\ Answer(p, "400") \in Service
          /\ Answer(p, "400").reading = FALSE
          /\ Answer(p, "400").kept = p.kept
          /\ Answer(p, "400").reply = "400"
      BY <1>1, AnswerIs
    <3>3. QED  BY <2>2, <3>1, <3>2
  <2>3. CASE p.reading /\ p.kept # 0 /\ p.kept > MaxBodySize
    <3>1. LevelOrder(p) = Answer(p, "413")
      BY <2>3 DEF LevelOrder
    <3>2. /\ Answer(p, "413") \in Service
          /\ Answer(p, "413").reading = FALSE
          /\ Answer(p, "413").kept = p.kept
          /\ Answer(p, "413").reply = "413"
      BY <1>1, AnswerIs
    <3>3. QED  BY <2>3, <3>1, <3>2
  <2>4. CASE p.reading /\ p.kept # 0 /\ ~(p.kept > MaxBodySize)
    <3>1. LevelOrder(p) = Measured(p, python)
      BY <2>4 DEF LevelOrder
    <3>2. QED  BY <1>1, <1>4, <2>4, <3>1
  <2>5. QED  BY <2>1, <2>2, <2>3, <2>4
<1>8. BodyTyped'
  BY <1>1, <1>3, <1>5, <1>6, <1>7 DEF BodyInv, BodyTyped, End, Services
<1>9. NodeKnown'
  BY <1>1, <1>3, <1>5
     DEF BodyInv, BodyTyped, NodeKnown, Known, Reading, Replied, TooDeep, Unknown
<1>10. GoKnown'
  BY <1>1, <1>3, <1>6
     DEF BodyInv, BodyTyped, GoKnown, Known, Reading, Replied, TooDeep
<1>11. PythonKnown'
  BY <1>1, <1>3, <1>7
     DEF BodyInv, BodyTyped, PythonKnown, Known, Reading, Replied, TooDeep, Service
<1>12. QED  BY <1>2, <1>8, <1>9, <1>10, <1>11 DEF BodyInv

(* Giving up, for whatever reason, is a reply like another. *)
LEMMA ClosedIs ==
  ASSUME NEW s \in Service
  PROVE  /\ Closed(s) \in Service /\ Closed(s).kept = s.kept
         /\ \/ ~s.reading /\ Closed(s) = s
            \/ s.reading /\ ~Closed(s).reading /\ Closed(s).reply = "closed"
BY AnswerIs DEF Closed

(* A service that still reads when the connection breaks gives no verdict. *)
LEMMA CutStep ==
  ASSUME BodyInv, Cut
  PROVE  BodyInv'
<1>1. /\ service.node \in Service /\ service.go \in Service
      /\ service.python \in Service
      /\ service'.node = Closed(service.node)
      /\ service'.go = Closed(service.go)
      /\ service'.python = Closed(service.python)
  BY DEF BodyInv, BodyTyped, Cut, Services
<1>2. GuardInv'
  BY ScansStay DEF BodyInv, Cut
<1>3. /\ chunk' = 0 /\ length' = length /\ stream = "open" /\ stream' = "cut"
      /\ declared' = declared /\ UNCHANGED <<node, go, python>>
  BY DEF Cut, vars
<1>4. BodyTyped'
  BY <1>1, <1>3, ClosedIs DEF BodyInv, BodyTyped, Cut, Services
<1>5. NodeKnown'
  BY <1>1, <1>3, ClosedIs
     DEF BodyInv, NodeKnown, Known, Reading, Replied, TooDeep
<1>6. GoKnown'
  BY <1>1, <1>3, ClosedIs
     DEF BodyInv, GoKnown, Known, Reading, Replied, TooDeep
<1>7. PythonKnown'
  BY <1>1, <1>3, ClosedIs
     DEF BodyInv, PythonKnown, Known, Reading, Replied, TooDeep
<1>8. QED  BY <1>2, <1>4, <1>5, <1>6, <1>7 DEF BodyInv

(* The Go service gives up a body that does not come. *)
LEMMA ReadTimeoutStep ==
  ASSUME BodyInv, ReadTimeout
  PROVE  BodyInv'
<1>1. /\ service.go \in Service
      /\ service'.node = service.node
      /\ service'.go = Closed(service.go)
      /\ service'.python = service.python
      /\ service' \in [Services -> Service]
  BY ClosedIs DEF BodyInv, BodyTyped, ReadTimeout, Services
<1>2. GuardInv'
  BY ScansStay DEF BodyInv, ReadTimeout
<1>3. UNCHANGED <<chunk, length, stream, declared, node, go, python>>
  BY DEF ReadTimeout, vars
<1>4. BodyTyped' /\ NodeKnown' /\ PythonKnown'
  BY <1>1, <1>3
     DEF BodyInv, BodyTyped, NodeKnown, PythonKnown, Known, Reading, Replied,
         TooDeep
<1>5. GoKnown'
  BY <1>1, <1>3, ClosedIs
     DEF BodyInv, BodyTyped, GoKnown, Known, Reading, Replied, TooDeep
<1>6. QED  BY <1>2, <1>4, <1>5 DEF BodyInv

(* The invariant holds of every request: however the body is cut into      *)
(* chunks, whatever its header says, and wherever the client breaks off.   *)
THEOREM BodyInvariance == BodySpec => []BodyInv
<1>1. BodyInv /\ [BodyNext]_bodyVars => BodyInv'
  <2> SUFFICES ASSUME BodyInv, [BodyNext]_bodyVars PROVE BodyInv'
    OBVIOUS
  <2>1. CASE Headers
    BY <2>1, HeadersStep
  <2>2. CASE Deliver
    BY <2>2, DeliverStep
  <2>3. CASE End
    BY <2>3, EndStep
  <2>4. CASE Cut
    BY <2>4, CutStep
  <2>5. CASE ReadTimeout
    BY <2>5, ReadTimeoutStep
  <2>6. CASE \E c \in Characters : Send(c)
    BY <2>6, SendStep
  <2>7. CASE UNCHANGED bodyVars
    <3>1. GuardInv'
      BY <2>7, ScansStay DEF bodyVars, BodyInv
    <3>2. UNCHANGED <<length, text, node, go, python, declared, stream, chunk,
                      service>>
      BY <2>7 DEF bodyVars, vars
    <3>3. QED
      BY <3>1, <3>2
         DEF BodyInv, BodyTyped, NodeKnown, GoKnown, PythonKnown, Known,
             Reading, Replied, TooDeep
  <2>8. QED
    BY <2>1, <2>2, <2>3, <2>4, <2>5, <2>6, <2>7 DEF BodyNext
<1>2. QED  BY <1>1, BodyInitial, PTL DEF BodySpec

(* What BodyTypeOK bounds: a service keeps no more than was sent. *)
Bounds ==
  /\ length <= MaxLength
  /\ declared \in 0..MaxLength \union {Unknown}
  /\ service.node.kept <= length /\ service.go.kept <= length
  /\ service.python.kept <= length

(* Of a chunk, a service that reads keeps what was sent and not delivered  *)
(* before; a service that does not read keeps nothing.                     *)
LEMMA BoundsStep ==
  ASSUME BodyInv, Bounds, [BodyNext]_bodyVars
  PROVE  Bounds'
<1> DEFINE Keeps(s, t) == \/ t.kept = s.kept
                          \/ s.reading /\ t.kept = s.kept + chunk
<1>1. /\ length \in Nat /\ chunk \in 0..length
      /\ service.node \in Service /\ service.go \in Service
      /\ service.python \in Service
      /\ service.node.reading => service.node.kept = length - chunk
      /\ service.go.reading => service.go.kept = length - chunk
      /\ service.python.reading => service.python.kept = length - chunk
  BY DEF BodyInv, BodyTyped, Services, NodeKnown, GoKnown, PythonKnown, Known,
     Reading
<1>2. /\ declared' = declared
      /\ \/ length' = length
         \/ length < MaxLength /\ length' = length + 1
  BY DEF BodyNext, bodyVars, vars, Headers, Send, Feed, Deliver, End, Cut,
     ReadTimeout
<1>3. \A s \in Service : \A reply : Answer(s, reply).kept = s.kept
  BY DEF Service, Answer
<1>4. \A s \in Service :
        /\ RequireBody(s).kept = s.kept /\ DeclaredSize(s).kept = s.kept
        /\ Closed(s).kept = s.kept /\ HookEnd(s).kept = s.kept
        /\ LevelOrderHandler(s).kept = s.kept /\ LevelOrder(s).kept = s.kept
  BY <1>3 DEF RequireBody, DeclaredSize, Closed, HookEnd, LevelOrderHandler,
     LevelOrder, Measured
<1>5. \A s \in Service :
        /\ Keeps(s, HookChunk(s)) /\ Keeps(s, RequestBody(s))
  BY <1>1, <1>3, KeptIs DEF HookChunk, RequestBody
<1>6. /\ Keeps(service.node, service'.node)
      /\ Keeps(service.go, service'.go)
      /\ Keeps(service.python, service'.python)
  <2>1. CASE Headers
    BY <1>1, <1>4, <2>1 DEF Headers
  <2>2. CASE Deliver
    BY <1>1, <1>5, <2>2 DEF Deliver, BodyLimit
  <2>3. CASE End
    BY <1>1, <1>4, <2>3 DEF End
  <2>4. CASE Cut
    BY <1>1, <1>4, <2>4 DEF Cut, Services
  <2>5. CASE ReadTimeout
    <3>1. /\ service'.node = service.node /\ service'.go = Closed(service.go)
          /\ service'.python = service.python
      BY <2>5 DEF ReadTimeout, BodyInv, BodyTyped, Services
    <3>2. QED  BY <1>1, <1>4, <3>1
  <2>6. CASE \E c \in Characters : Send(c)
    BY <2>6 DEF Send
  <2>7. CASE UNCHANGED bodyVars
    BY <2>7 DEF bodyVars
  <2>8. QED
    BY <2>1, <2>2, <2>3, <2>4, <2>5, <2>6, <2>7 DEF BodyNext
<1>7. /\ service'.node.kept <= length /\ service'.go.kept <= length
      /\ service'.python.kept <= length
      /\ service'.node.kept \in Int /\ service'.go.kept \in Int
      /\ service'.python.kept \in Int
  BY <1>1, <1>6 DEF Bounds, Service
<1>8. QED  BY <1>1, <1>2, <1>7 DEF Bounds

(* Type correctness, for every request. *)
THEOREM BodyTypeCorrectness == BodySpec => []BodyTypeOK
<1>1. BodyInit => Bounds
  BY DEF BodyInit, Init, Bounds, Services
<1>2. BodyInv /\ Bounds /\ [BodyNext]_bodyVars => Bounds'
  BY BoundsStep
<1>3. BodyInv /\ Bounds => BodyTypeOK
  <2> SUFFICES ASSUME BodyInv, Bounds PROVE BodyTypeOK
    OBVIOUS
  <2>1. TypeOK
    <3>1. length \in 0..MaxLength
      BY DEF BodyInv, BodyTyped, Bounds
    <3>2. /\ InText \union {"malformed"} = {"out", "in", "escaped", "malformed"}
          /\ InText \union {"skipping"} = {"out", "in", "escaped", "skipping"}
      BY DEF InText
    <3>3. QED  BY <3>1, <3>2 DEF BodyInv, GuardInv, Typed, TypeOK, InText
  <2>2. \A s \in Services :
          service[s] \in [reading : BOOLEAN, kept : 0..length,
                          reply : {"none", "400", "413", "parsed", "closed"}]
    <3>1. \A s \in Service : s.kept <= length =>
            s \in [reading : BOOLEAN, kept : 0..length,
                   reply : {"none", "400", "413", "parsed", "closed"}]
      BY DEF Service, BodyInv, BodyTyped
    <3>2. QED  BY <3>1 DEF Services, BodyInv, BodyTyped, Bounds
  <2>3. QED  BY <2>1, <2>2 DEF BodyTypeOK, BodyInv, BodyTyped, Bounds
<1>4. QED  BY <1>1, <1>2, <1>3, BodyInvariance, PTL DEF BodySpec

(* No parser of the services is handed a part of a body, one over the size *)
(* limit, or one that nests too deeply.                                    *)
THEOREM ParsersAreGuarded == BodySpec => []ParsedIsGuarded
<1>1. BodyInv => ParsedIsGuarded
  <2> SUFFICES ASSUME BodyInv PROVE ParsedIsGuarded
    OBVIOUS
  <2>1. text.max \in Nat /\ (text.max > MaxNesting =>
          TooDeep(node) /\ TooDeep(go) /\ TooDeep(python))
    BY DEF BodyInv, GuardInv, Typed, Scans, ParserProtected
  <2>2. \A s \in Services :
          \/ s = "node" /\ service[s] = service.node
          \/ s = "go" /\ service[s] = service.go
          \/ s = "python" /\ service[s] = service.python
    BY DEF Services
  <2>3. \A s \in Services : service[s].reply = "parsed" =>
          /\ stream = "ended" /\ service[s].kept = length
          /\ length <= MaxBodySize
          /\ ~(TooDeep(node) /\ TooDeep(go) /\ TooDeep(python))
    BY <2>2 DEF BodyInv, NodeKnown, GoKnown, PythonKnown, Known, Replied
  <2>4. QED
    BY <2>1, <2>3 DEF ParsedIsGuarded, BodyInv, BodyTyped
<1>2. QED  BY <1>1, BodyInvariance, PTL

(* No body, however large and however it is sent, makes a service keep     *)
(* more than the limit, but for one of unknown length in Python.           *)
THEOREM KeptIsBounded == BodySpec => []KeepsWithinLimit
<1>1. BodyInv => KeepsWithinLimit
  BY DEF BodyInv, NodeKnown, GoKnown, PythonKnown, KeepsWithinLimit
<1>2. QED  BY <1>1, BodyInvariance, PTL

(* The three services give one reply to a well-formed body that came to    *)
(* its end.                                                                *)
THEOREM OneAnswerForAll == BodySpec => []RepliesAgree
<1>1. BodyInv => RepliesAgree
  <2> SUFFICES ASSUME BodyInv, stream = "ended", text.mode # "malformed",
                      service.go.reply # "closed"
               PROVE  /\ service.go.reply = service.python.reply
                      /\ declared # Unknown =>
                           service.node.reply = service.go.reply
    BY DEF RepliesAgree
  <2>1. /\ TooDeep(node) <=> TooDeep(text)
        /\ TooDeep(go) <=> TooDeep(text)
        /\ TooDeep(python) <=> TooDeep(text)
    BY DEF BodyInv, GuardInv, NodeKnowsTheNesting, GoFollowsNode, GoMirrorsNode,
       PythonFollowsText
  <2>2. /\ length \in Nat /\ declared \in {Unknown, length}
        /\ service.node \in Service /\ service.go \in Service
        /\ service.python \in Service
    BY DEF BodyInv, BodyTyped, Services
  <2>3. /\ service.node.reply \in {"400", "413", "parsed"}
        /\ service.go.reply \in {"400", "413", "parsed"}
        /\ service.python.reply \in {"400", "413", "parsed"}
    BY <2>2 DEF BodyInv, NodeKnown, GoKnown, PythonKnown, Known, Reading, Service
  <2> DEFINE Right == IF length = 0 THEN "400"
                      ELSE IF length > MaxBodySize THEN "413"
                      ELSE IF TooDeep(text) THEN "400" ELSE "parsed"
  <2>4. service.go.reply = Right
    BY <2>1, <2>2, <2>3 DEF BodyInv, GoKnown, Known, Replied, Unknown
  <2>5. service.python.reply = Right
    BY <2>1, <2>2, <2>3 DEF BodyInv, PythonKnown, Known, Replied, Unknown
  <2>6. declared # Unknown => service.node.reply = Right
    BY <2>1, <2>2, <2>3 DEF BodyInv, NodeKnown, Known, Replied, Unknown
  <2>7. QED  BY <2>4, <2>5, <2>6
<1>2. QED  BY <1>1, BodyInvariance, PTL

(* A request is replied to once. *)
THEOREM OneReplyOnly == BodySpec => OneReply
<1> DEFINE Stays == \A s \in Services :
             service[s].reply # "none" => service'[s].reply = service[s].reply
<1>1. BodyInv /\ [BodyNext]_bodyVars => [Stays]_bodyVars
  <2> SUFFICES ASSUME BodyInv, BodyNext PROVE Stays
    OBVIOUS
  <2>1. /\ service \in [Services -> Service]
        /\ service.node.reply # "none" => ~service.node.reading
        /\ service.go.reply # "none" => ~service.go.reading
        /\ service.python.reply # "none" => ~service.python.reading
        /\ stream = "headers" => service.node.reading
    BY DEF BodyInv, BodyTyped, NodeKnown, GoKnown, PythonKnown, Known, Reading
  <2> DEFINE Same(s, t) == ~s.reading => t.reply = s.reply
  <2>2. /\ Same(service.node, service'.node)
        /\ Same(service.go, service'.go)
        /\ Same(service.python, service'.python)
    <3>1. CASE Headers
      BY <2>1, <3>1 DEF Headers, DeclaredSize
    <3>2. CASE Deliver
      BY <2>1, <3>2 DEF Deliver, HookChunk, BodyLimit, RequestBody
    <3>3. CASE End
      BY <2>1, <3>3 DEF End, HookEnd, LevelOrderHandler, LevelOrder
    <3>4. CASE Cut
      BY <2>1, <3>4 DEF Cut, Closed, Services
    <3>5. CASE ReadTimeout
      BY <2>1, <3>5 DEF ReadTimeout, Closed, Services
    <3>6. CASE \E c \in Characters : Send(c)
      BY <2>1, <3>6 DEF Send
    <3>7. QED
      BY <3>1, <3>2, <3>3, <3>4, <3>5, <3>6 DEF BodyNext
  <2>3. QED  BY <2>1, <2>2 DEF Services
<1>2. QED  BY <1>1, BodyInvariance, PTL DEF BodySpec, OneReply

(* Behind the headers, the body goes through the scans of JsonDepth one    *)
(* character at a time, so what is proved of them holds of every request.  *)
THEOREM BodyIsScanned == BodySpec => Spec
<1>1. BodyInit => Init
  BY DEF BodyInit
<1>2. [BodyNext]_bodyVars => [Next]_vars
  BY DEF BodyNext, bodyVars, Headers, Send, Deliver, End, Cut, ReadTimeout, Next
<1>3. QED  BY <1>1, <1>2, PTL DEF BodySpec, Spec
=============================================================================
