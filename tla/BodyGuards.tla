------------------------------ MODULE BodyGuards ------------------------------
(***************************************************************************)
(* How the body of a request comes to the nesting guard of JsonDepth, and  *)
(* what is answered before a parser sees it.  The same request is sent to  *)
(* a Node service (the preParsing hook of main.ts, which keeps the chunks  *)
(* it reads), to the Go service (fasthttp reads the body before            *)
(* levelOrderHandler runs) and to the Python service (level_order awaits   *)
(* the body).  The body arrives in chunks; the client may break off or     *)
(* stall.                                                                  *)
(***************************************************************************)
EXTENDS JsonDepth

CONSTANT MaxBodySize  \* MAX_BODY_SIZE, maxBodySize: in characters here

ASSUME BodySizeAssumption == MaxBodySize \in Nat

Unknown == -1  \* the body is sent in chunks, without a Content-Length header

VARIABLES
  declared,  \* the Content-Length header
  stream,    \* what was sent: "headers", "open", "ended", "cut"
  chunk,     \* characters sent that are not delivered yet
  service    \* for each service: still reading, characters kept, reply

bodyVars == <<vars, declared, stream, chunk, service>>

Services == {"node", "go", "python"}

BodyInit ==
  /\ Init
  /\ declared \in 0..MaxLength \union {Unknown}
  /\ stream = "headers"
  /\ chunk = 0
  /\ service = [s \in Services |-> [reading |-> TRUE, kept |-> 0, reply |-> "none"]]

Answer(s, reply) == [s EXCEPT !.reading = FALSE, !.reply = reply]

-----------------------------------------------------------------------------
(* What each service does with the headers.                                *)

(* RequireBodyMiddleware. *)
RequireBody(s) == IF declared \in {0, Unknown} THEN Answer(s, "400") ELSE s

(* fasthttp with BodyLimit, and the first test of level_order. *)
DeclaredSize(s) ==
  IF s.reading /\ declared > MaxBodySize THEN Answer(s, "413") ELSE s

Headers ==
  /\ stream = "headers"
  /\ stream' = "open"
  /\ service' = [node   |-> RequireBody(service.node),
                 go     |-> DeclaredSize(service.go),
                 python |-> DeclaredSize(service.python)]
  /\ UNCHANGED <<vars, declared, chunk>>

-----------------------------------------------------------------------------
(* What each does with a chunk.                                            *)

(* Wrong variant: the hook does not return behind its reply. *)
HookChunk_NoReturn(s) ==
  IF ~s.reading THEN s
  ELSE [s EXCEPT !.kept = @ + chunk,
                 !.reply = IF s.kept + chunk > MaxBodySize THEN "413" ELSE @]

(* The size counts before the chunk is kept. *)
HookChunk(s) ==
  IF ~s.reading THEN s
  ELSE IF s.kept + chunk > MaxBodySize THEN Answer(s, "413")
  ELSE [s EXCEPT !.kept = @ + chunk]

(* fasthttp's readBody with a limit. *)
BodyLimit(s) == HookChunk(s)

(* await request.body(): no limit. *)
RequestBody(s) == IF s.reading THEN [s EXCEPT !.kept = @ + chunk] ELSE s

Send(c) ==
  /\ stream = "open"
  /\ declared = Unknown \/ length < declared
  /\ Feed(c)
  /\ chunk' = chunk + 1
  /\ UNCHANGED <<declared, stream, service>>

Deliver ==
  /\ chunk > 0
  /\ chunk' = 0
  /\ service' = [node   |-> HookChunk(service.node),
                 go     |-> BodyLimit(service.go),
                 python |-> RequestBody(service.python)]
  /\ UNCHANGED <<vars, declared, stream>>

-----------------------------------------------------------------------------
(* What each does with the whole body.                                     *)

Measured(s, scan) == Answer(s, IF TooDeep(scan) THEN "400" ELSE "parsed")

(* The chunks are joined, measured, and passed on to Fastify's parser. *)
HookEnd(s) == IF s.reading THEN Measured(s, node) ELSE s

LevelOrderHandler(s) ==
  IF ~s.reading THEN s
  ELSE IF s.kept = 0 THEN Answer(s, "400")
  ELSE Measured(s, go)

LevelOrder(s) ==
  IF ~s.reading THEN s
  ELSE IF s.kept = 0 THEN Answer(s, "400")
  ELSE IF s.kept > MaxBodySize THEN Answer(s, "413")
  ELSE Measured(s, python)

End ==
  /\ stream = "open"
  /\ chunk = 0
  /\ declared \in {Unknown, length}
  /\ stream' = "ended"
  /\ service' = [node   |-> HookEnd(service.node),
                 go     |-> LevelOrderHandler(service.go),
                 python |-> LevelOrder(service.python)]
  /\ UNCHANGED <<vars, declared, chunk>>

-----------------------------------------------------------------------------
(* What each does when the body stops coming.                              *)

(* Wrong variant: what came before the connection broke is taken. *)
Cut_TakesTheRest ==
  /\ stream = "open"
  /\ stream' = "cut"
  /\ chunk' = 0
  /\ service' = [node   |-> HookEnd(service.node),
                 go     |-> LevelOrderHandler(service.go),
                 python |-> LevelOrder(service.python)]
  /\ UNCHANGED <<vars, declared>>

Closed(s) == IF s.reading THEN Answer(s, "closed") ELSE s

(* The for await loop and the await throw, fasthttp gives up. *)
Cut ==
  /\ stream = "open"
  /\ stream' = "cut"
  /\ chunk' = 0
  /\ service' = [s \in Services |-> Closed(service[s])]
  /\ UNCHANGED <<vars, declared>>

(* The Go service waits five seconds for a request, the others for ever.   *)
ReadTimeout ==
  /\ stream \in {"headers", "open"}
  /\ service.go.reading
  /\ service' = [service EXCEPT !.go = Closed(@)]
  /\ UNCHANGED <<vars, declared, stream, chunk>>

BodyNext ==
  \/ Headers \/ Deliver \/ End \/ Cut \/ ReadTimeout
  \/ \E c \in Characters : Send(c)

BodySpec == BodyInit /\ [][BodyNext]_bodyVars
-----------------------------------------------------------------------------
(* Properties.                                                             *)

(* Type correctness. *)
BodyTypeOK ==
  /\ TypeOK
  /\ declared \in 0..MaxLength \union {Unknown}
  /\ stream \in {"headers", "open", "ended", "cut"}
  /\ chunk \in 0..length
  /\ service \in [Services -> [reading : BOOLEAN, kept : 0..length,
                               reply : {"none", "400", "413", "parsed", "closed"}]]

(* What a service hands to its parser is the whole body, never the part    *)
(* that came before the client broke off, within the size limit, and       *)
(* nests no deeper than the limit as far as a parser could read.           *)
ParsedIsGuarded ==
  \A s \in Services : service[s].reply = "parsed" =>
    /\ stream = "ended"
    /\ declared \in {Unknown, length}
    /\ service[s].kept = length
    /\ length <= MaxBodySize
    /\ text.max <= MaxNesting

(* The services give one reply to a body that came to its end and is well  *)
(* formed, wherever they noticed what is wrong with it: at the header, at  *)
(* a chunk or at the end.  Without a Content-Length header Node refuses    *)
(* what the other two take.                                                *)
RepliesAgree ==
  stream = "ended" /\ text.mode # "malformed" /\ service.go.reply # "closed" =>
    /\ service.go.reply = service.python.reply
    /\ declared # Unknown => service.node.reply = service.go.reply

(* What is kept of a body stays within the limit, however large it is,     *)
(* except in the Python service, which reads a body of unknown length to   *)
(* its end before it measures it.                                          *)
KeepsWithinLimit ==
  /\ service.node.kept <= MaxBodySize /\ service.go.kept <= MaxBodySize
  /\ declared # Unknown => service.python.kept <= MaxBodySize

(* A request is answered once: behind a reply that the hook sends in the   *)
(* middle of its loop, no later chunk and no end of the body brings a      *)
(* second one.                                                             *)
OneReply ==
  [][\A s \in Services :
       service[s].reply # "none" => service'[s].reply = service[s].reply]_bodyVars
=============================================================================
