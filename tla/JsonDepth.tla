------------------------------ MODULE JsonDepth ------------------------------
(***************************************************************************)
(* The guard that refuses a body whose JSON nests too deeply, before it is *)
(* parsed.  Three implementations scan the same body: a loop over the      *)
(* characters (both Node services, main.ts), the same loop over the bytes  *)
(* that returns as soon as the limit is passed (go-impl/main.go), and a    *)
(* regular expression that jumps from one token to the next                *)
(* (python-impl/main.py).  One action feeds one character to all of them,  *)
(* and to the reader of the JSON text that a parser would be.              *)
(*                                                                         *)
(* Only the class of a character matters; no implementation tells the two  *)
(* kinds of bracket apart.  A character of several bytes is "other", its   *)
(* every byte included.                                                    *)
(***************************************************************************)
EXTENDS Integers

CONSTANTS
  MaxNesting,  \* MAX_JSON_NESTING_DEPTH
  MaxLength    \* bound on the length of the body, for model checking

ASSUME NestingAssumption == MaxNesting \in Nat /\ MaxLength \in Nat

Characters == {"open", "close", "quote", "backslash", "other"}

VARIABLES
  length,  \* characters fed so far
  text,    \* the JSON text as a parser reads it
  node,    \* the scan of the Node services
  go,      \* the scan of the Go service
  python   \* the scan of the Python service

vars == <<length, text, node, go, python>>

(* A scan: outside strings ("out"), inside one ("in"), or behind a         *)
(* backslash ("escaped" inside a string, "skipping" outside); how many     *)
(* brackets are open, and how many were at most.                           *)
Start == [mode |-> "out", depth |-> 0, max |-> 0]

Init ==
  /\ length = 0
  /\ text = Start
  /\ node = Start
  /\ go = Start
  /\ python = Start

Toggle(mode) == IF mode = "out" THEN "in" ELSE "out"

(* A bracket opened or closed outside a string. *)
Counted(s, c) ==
  CASE c = "open" -> [s EXCEPT !.depth = s.depth + 1,
                               !.max = IF s.depth + 1 > s.max
                                       THEN s.depth + 1 ELSE s.max]
    [] c = "close" -> [s EXCEPT !.depth = s.depth - 1]
    [] OTHER -> s

(* The verdict of a scan: the body nests too deeply. *)
TooDeep(s) == s.max > MaxNesting

(* Wrong variant: a backslash is a character like any other. *)
CharacterLoop_NoEscapes(s, c) ==
  IF c = "quote" THEN [s EXCEPT !.mode = Toggle(@)]
  ELSE IF s.mode = "in" THEN s
  ELSE Counted(s, c)

(* Wrong variant: the character behind a backslash is skipped outside      *)
(* strings too.                                                            *)
CharacterLoop_SkipsAnywhere(s, c) ==
  IF s.mode = "escaped" THEN [s EXCEPT !.mode = "in"]
  ELSE IF s.mode = "skipping" THEN [s EXCEPT !.mode = "out"]
  ELSE IF c = "backslash"
       THEN [s EXCEPT !.mode = IF @ = "in" THEN "escaped" ELSE "skipping"]
  ELSE CharacterLoop_NoEscapes(s, c)

(* measureJsonDepth: one iteration for each character.  The one behind a   *)
(* backslash is skipped, inside a string only.                             *)
CharacterLoop(s, c) ==
  IF s.mode = "escaped" THEN [s EXCEPT !.mode = "in"]
  ELSE IF s.mode = "in" /\ c = "backslash" THEN [s EXCEPT !.mode = "escaped"]
  ELSE IF c = "quote" THEN [s EXCEPT !.mode = Toggle(@)]
  ELSE IF s.mode = "in" THEN s
  ELSE Counted(s, c)

(* measureJSONDepth: the same loop, until the depth passes the limit. *)
ByteLoop(s, c) == IF TooDeep(s) THEN s ELSE CharacterLoop(s, c)

(* Wrong variant: the pattern has no \\. alternative.                       *)
RegexTokens_NoEscapeToken(s, c) ==
  IF TooDeep(s) THEN s ELSE CharacterLoop_NoEscapes(s, c)

(* _measure_json_depth: the pattern consumes a backslash and the character *)
(* behind it as one token, outside strings as well.                        *)
RegexTokens(s, c) ==
  IF TooDeep(s) THEN s
  ELSE IF s.mode = "escaped" THEN [s EXCEPT !.mode = "in"]
  ELSE IF s.mode = "skipping" THEN [s EXCEPT !.mode = "out"]
  ELSE IF c = "backslash"
       THEN [s EXCEPT !.mode = IF @ = "in" THEN "escaped" ELSE "skipping"]
  ELSE IF c = "quote" THEN [s EXCEPT !.mode = Toggle(@)]
  ELSE IF s.mode = "in" THEN s
  ELSE Counted(s, c)

(* The text as a parser reads it, up to the character ("malformed") that   *)
(* no JSON text has there: a backslash outside a string, or a closing      *)
(* bracket with nothing to close.                                          *)
Grammar(s, c) ==
  CASE s.mode = "malformed" -> s
    [] s.mode = "escaped" -> [s EXCEPT !.mode = "in"]
    [] s.mode = "in" -> [s EXCEPT !.mode = CASE c = "quote" -> "out"
                                             [] c = "backslash" -> "escaped"
                                             [] OTHER -> "in"]
    [] s.mode = "out" ->
         CASE c = "quote" -> [s EXCEPT !.mode = "in"]
           [] c = "backslash" -> [s EXCEPT !.mode = "malformed"]
           [] c = "close" -> IF s.depth = 0
                             THEN [s EXCEPT !.mode = "malformed"]
                             ELSE [s EXCEPT !.depth = s.depth - 1]
           [] c = "open" -> [s EXCEPT !.depth = s.depth + 1,
                                      !.max = IF s.depth = s.max
                                              THEN s.max + 1 ELSE s.max]
           [] OTHER -> s

Feed(c) ==
  /\ length < MaxLength
  /\ length' = length + 1
  /\ text' = Grammar(text, c)
  /\ node' = CharacterLoop(node, c)
  /\ go' = ByteLoop(go, c)
  /\ python' = RegexTokens(python, c)

Next == \E c \in Characters : Feed(c)

Spec == Init /\ [][Next]_vars
-----------------------------------------------------------------------------
(* Properties.                                                             *)

Scans(modes) == [mode : modes, depth : Int, max : Nat]

(* Type correctness. *)
TypeOK ==
  /\ length \in 0..MaxLength
  /\ text \in Scans({"out", "in", "escaped", "malformed"})
  /\ node \in Scans({"out", "in", "escaped"})
  /\ go \in Scans({"out", "in", "escaped"})
  /\ python \in Scans({"out", "in", "escaped", "skipping"})

(* Of a text that is still well formed, the Node scan knows exactly how    *)
(* deep it is and how deep it went: no bracket inside a string is counted, *)
(* and no quote behind a backslash ends a string.                          *)
NodeKnowsTheNesting == text.mode # "malformed" => node = text

(* main.go, "Mirrors NestJS measureJsonDepth": the Go service refuses what *)
(* the Node services refuse, malformed bodies included; returning at the   *)
(* first bracket that is too deep changes no verdict.                      *)
GoMirrorsNode == TooDeep(go) <=> TooDeep(node)

(* Of a body that is well formed all three give the verdict of its nesting. *)
VerdictsAgree ==
  text.mode # "malformed" =>
    \A s \in {node, go, python} : TooDeep(s) <=> text.max > MaxNesting

(* The parser is protected whatever the body: if what it could read, up to *)
(* the first malformed character, nests too deeply, every implementation   *)
(* refuses the body, whatever comes behind that character.                 *)
ParserProtected ==
  text.max > MaxNesting => TooDeep(node) /\ TooDeep(go) /\ TooDeep(python)

=============================================================================
