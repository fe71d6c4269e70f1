------------------------------- MODULE Frames -------------------------------
(***************************************************************************)
(* How messages are cut out of a byte stream where one connection carries  *)
(* them: the WebSocket to Codex (vt-agent/src/ws.rs) and the HTTP of hooks *)
(* and the loopback client (vt-ipc/src/http.rs).  A byte of a frame's head *)
(* is a number below Byte, a payload is numbers below Byte too; lengths    *)
(* that need one, two or more bytes are told apart at Small and Byte^2.    *)
(***************************************************************************)
EXTENDS Integers, Sequences, SequencesExt

CONSTANTS Byte,      (* 256 in the code: how many values a byte has        *)
          Small,     (* 126: lengths below it are in the head itself       *)
          MaxBody    (* MAX_BODY of http.rs                                *)

Cont == 0
TextOp == 1
Close == 8
Ping == 9
Pong == 10

Drop(s, n) == SubSeq(s, n + 1, Len(s))
BigEndian(n, digits) == [i \in 1..digits |-> (n \div Byte^(digits - i)) % Byte]
Number(bytes) == FoldLeft(LAMBDA n, b : n * Byte + b, 0, bytes)

(* The XOR with a mask, one of its bytes after another: any operation on   *)
(* bytes that undoes itself will do.                                       *)
Masked(payload, mask) == [i \in DOMAIN payload |-> (mask[((i - 1) % 4) + 1] - payload[i]) % Byte]

(* write_frame: the length in the head, in two bytes, or in eight.         *)
Length(n) == IF n < Small THEN <<n>> ELSE IF n < Byte^2 THEN <<Small>> \o BigEndian(n, 2) ELSE <<Small + 1>> \o BigEndian(n, 8)
Frame(fin, opcode, mask, payload) ==
    <<[fin |-> fin, opcode |-> opcode]>>
        \o <<[masked |-> mask # <<>>, len |-> Length(Len(payload))[1]]>> \o Tail(Length(Len(payload)))
        \o mask \o (IF mask = <<>> THEN payload ELSE Masked(payload, mask))
WriteFrame(opcode, mask, payload) == Frame(TRUE, opcode, mask, payload)

-----------------------------------------------------------------------------
(* recv_text: what is left, the message so far, what was written back, and *)
(* what the call returns: "text", "closed" or "error".                     *)
LengthBytes(head) == IF head.len = Small THEN 2 ELSE IF head.len = Small + 1 THEN 8 ELSE 0
Reading(stream) == [rest |-> stream, message |-> <<>>, sent |-> <<>>, is |-> "reading"]
MaskBytes(head) == IF head.masked THEN 4 ELSE 0
Unmasked(head, mask, bytes) == IF head.masked THEN Masked(bytes, mask) ELSE bytes
CutShort == [fits |-> FALSE, of |-> <<>>, used |-> 0]
Fitting(head, body, n, len) ==
    LET from == n + MaskBytes(head)
    IN  IF Len(body) < from + len THEN CutShort
        ELSE [fits |-> TRUE, used |-> 2 + from + len, of |-> Unmasked(head, SubSeq(body, n + 1, from), SubSeq(body, from + 1, from + len))]
Sized(head, body, n) ==
    IF Len(body) < n THEN CutShort ELSE Fitting(head, body, n, IF n = 0 THEN head.len ELSE Number(SubSeq(body, 1, n)))
Payload(r) == Sized(r.rest[2], Drop(r.rest, 2), LengthBytes(r.rest[2]))

Past(r, p) == [r EXCEPT !.rest = Drop(@, p.used)]
With(r, p) == [Past(r, p) EXCEPT !.message = @ \o p.of]
RECURSIVE Received(_)
Taken(r, p) ==
    CASE ~p.fits -> [r EXCEPT !.is = "error"]
      [] p.fits /\ r.rest[1].opcode \in {TextOp, Cont} ->
             IF r.rest[1].fin THEN [With(r, p) EXCEPT !.is = "text"] ELSE Received(With(r, p))
      [] p.fits /\ r.rest[1].opcode = Ping -> Received([Past(r, p) EXCEPT !.sent = Append(@, <<Pong, p.of>>)])
      [] p.fits /\ r.rest[1].opcode = Close -> [Past(r, p) EXCEPT !.sent = Append(@, <<Close, <<>> >>), !.is = "closed"]
      [] OTHER -> Received(Past(r, p))
Received(r) == IF Len(r.rest) < 2 THEN [r EXCEPT !.is = "closed"] ELSE Taken(r, Payload(r))

(* One call after another, until the stream is over. *)
RECURSIVE AllReceived(_, _, _)
AllReceived(stream, texts, sent) ==
    LET r == Received(Reading(stream))
    IN  IF r.is = "text" THEN AllReceived(r.rest, Append(texts, r.message), sent \o r.sent)
        ELSE [texts |-> texts, sent |-> sent \o r.sent, is |-> r.is]

-----------------------------------------------------------------------------
(* A message as it is sent: in fragments, with control frames between.     *)
Fragments(text, cuts, mask) ==
    FlattenSeq([i \in DOMAIN cuts |->
        Frame(i = Len(cuts), IF i = 1 THEN TextOp ELSE Cont, mask, SubSeq(text, IF i = 1 THEN 1 ELSE cuts[i - 1] + 1, cuts[i]))
            \o (IF i < Len(cuts) THEN Frame(TRUE, Ping, <<>>, <<1>>) \o Frame(TRUE, Pong, mask, <<>>) ELSE <<>>)])
Pongs(cuts) == [i \in 1..(Len(cuts) - 1) |-> <<Pong, <<1>> >>]

(* ws.rs: whatever the lengths, the masks and the fragments, the texts     *)
(* received are the texts sent, every ping is answered with what it held,  *)
(* and after a close nothing more is read.                                 *)
TextsSurvive(texts, cuts, mask) ==
    LET sent == FlattenSeq([i \in DOMAIN texts |-> Fragments(texts[i], Append(cuts[i], Len(texts[i])), mask)])
        all == AllReceived(sent \o WriteFrame(Close, mask, <<>>) \o WriteFrame(TextOp, mask, <<0>>), <<>>, <<>>)
    IN  /\ all.texts = texts /\ all.is = "closed"
        /\ all.sent = FlattenSeq([i \in DOMAIN texts |-> Pongs(Append(cuts[i], Len(texts[i])))]) \o << <<Close, <<>> >> >>

(* A connection that is lost inside a frame never turns a part of a        *)
(* message into a message.                                                 *)
LostIsNotText(text, mask) ==
    LET frame == WriteFrame(TextOp, mask, text)
    IN  \A n \in 0..(Len(frame) - 1) : AllReceived(SubSeq(frame, 1, n), <<>>, <<>>).texts = <<>>

-----------------------------------------------------------------------------
(* http.rs: a request line, headers, a blank line and a body.              *)
Header(name, value) == [is |-> "header", name |-> name, value |-> value]
Blank == [is |-> "blank", name |-> "", value |-> 0]
Bad == [is |-> "bad", name |-> "", value |-> 0]
NoNumber == 0 - 1

Lengths(headers) == SelectSeq(headers, LAMBDA h : h.name = "content-length")
(* Lines up to a blank one: an end of the stream reads like it.            *)
HeadersOf(lines) == SubSeq(lines, 1, SelectInSeq(Append(lines, Blank), LAMBDA h : h = Blank) - 1)
(* Mutation: whatever had come when the client went away is the body. *)
BodyOfSoFar(n, body) == [status |-> 200, body |-> SubSeq(body, 1, IF n > Len(body) THEN Len(body) ELSE n)]
(* read_exact of the n bytes that content-length announced. *)
BodyOf(n, body) == IF n > Len(body) THEN [status |-> 400, body |-> <<>>] ELSE [status |-> 200, body |-> SubSeq(body, 1, n)]
(* read_request: the request, or the status it is refused with.            *)
ReadRequest(line, lines, body) ==
    LET headers == HeadersOf(lines)
        sizes == Lengths(headers)
        n == IF sizes = <<>> THEN 0 ELSE Last(sizes).value
        bad == {i \in DOMAIN headers : headers[i] = Bad \/ headers[i] \in {Header("content-length", NoNumber)}}
        large == {i \in DOMAIN headers : headers[i].name = "content-length" /\ headers[i].value > MaxBody}
        First(s) == CHOOSE i \in s : \A j \in s : i <= j
    IN  CASE line \in {"", "POST"} -> [status |-> 400, body |-> <<>>]
          [] line \notin {"", "POST"} /\ bad # {} /\ (large = {} \/ First(bad) < First(large)) -> [status |-> 400, body |-> <<>>]
          [] line \notin {"", "POST"} /\ large # {} /\ (bad = {} \/ First(large) < First(bad)) -> [status |-> 413, body |-> <<>>]
          [] OTHER -> BodyOf(n, body)

(* write_response and the reading half of post_json. *)
WriteResponse(status, body) == [lines |-> <<Header("content-type", 0), Header("content-length", Len(body)), Header("connection", 0), Blank>>, status |-> status, body |-> body]
ReadResponse(response) ==
    LET sizes == Lengths(HeadersOf(response.lines))
        n == IF sizes = <<>> \/ Last(sizes).value = NoNumber THEN 0 ELSE Last(sizes).value
    IN  IF n > Len(response.body) THEN [status |-> NoNumber, body |-> <<>>] ELSE [status |-> response.status, body |-> SubSeq(response.body, 1, n)]
PostJson(body) == <<Header("host", 0), Header("content-type", 0), Header("content-length", Len(body)), Header("connection", 0), Blank>>

(* http.rs: what the relay posts is what the handler gets, and its answer  *)
(* what the relay reads; a body past the limit is refused before it is     *)
(* read; and a request cut short, in its headers or in its body, never     *)
(* gives the handler a part of a body.                                     *)
PostIsHeard(body, answer) ==
    LET heard == ReadRequest("POST /x", PostJson(body), body)
    IN  /\ IF Len(body) <= MaxBody THEN heard = [status |-> 200, body |-> body] ELSE heard.status = 413
        /\ ReadResponse(WriteResponse(200, answer)) = [status |-> 200, body |-> answer]
        /\ \A n \in 0..(Len(body) - 1) : ReadRequest("POST /x", PostJson(body), SubSeq(body, 1, n)).status # 200
        /\ \A n \in 0..4 : ReadRequest("POST /x", SubSeq(PostJson(body), 1, n), <<>>).body = <<>>
=============================================================================
