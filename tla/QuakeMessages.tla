---------------------------- MODULE QuakeMessages ---------------------------
(***************************************************************************)
(* The messages of the Quake port (ports/quake/platform/com_demonos.c): a  *)
(* sizebuf takes fields one after the other, MSG_Write..., and the reader  *)
(* takes them out again, MSG_Read..., with a position of its own.  Beside  *)
(* them the doubly linked lists of areas, ClearLink to InsertLinkAfter.    *)
(*                                                                         *)
(* A field is [type, value].  A float is its four bytes: on this machine   *)
(* LittleLong is the identity.  s.sent are the fields written since the    *)
(* buffer was last cleared, s.read what was read.                          *)
(***************************************************************************)
EXTENDS Integers, Sequences, SequencesExt, FiniteSets

CONSTANTS Fields,         \* what may be written
          MAX_SIZE,       \* maxsize of the buffer
          ALLOW,          \* allowoverflow
          FIELDS,         \* bound: fields written or read
          Nodes           \* of the lists; the first is the head

VARIABLE s

Byte(c, i) == (c \div 256^i) % 256
Signed(b) == IF b >= 128 THEN b - 256 ELSE b

(***************************************************************************)
(* Writing.                                                                *)
(***************************************************************************)
Truncated(a, b) == IF a < 0 THEN -((-a) \div b) ELSE a \div b
MSG_WriteShort(c) == <<Byte(c, 0), Byte(c, 1)>>
MSG_WriteLong(c) == <<Byte(c, 0), Byte(c, 1), Byte(c, 2), Byte(c, 3)>>
(* Coordinates are given in sixteenths, angles in degrees.                 *)
MSG_WriteCoord(f) == MSG_WriteShort(Truncated(f, 2))
MSG_WriteAngle(f) == <<Truncated(f * 256, 360) % 256>>
Encoded(f) ==
  CASE f.type \in {"byte", "char"} -> <<Byte(f.value, 0)>>
    [] f.type = "short" -> MSG_WriteShort(f.value)
    [] f.type = "long" -> MSG_WriteLong(f.value)
    [] f.type = "coord" -> MSG_WriteCoord(f.value)
    [] f.type = "angle" -> MSG_WriteAngle(f.value)
    [] f.type = "float" -> f.value
    [] f.type = "string" -> Append(f.value, 0)

(* A field that does not fit clears the buffer, if that is allowed.        *)
Fits(data) == Len(s.data) + Len(data) <= MAX_SIZE
SZ_Write(f) ==
  /\ s.phase = "write" /\ Len(s.sent) < FIELDS
  /\ LET d == Encoded(f)
     IN  IF Fits(d) THEN s' = [s EXCEPT !.data = @ \o d, !.sent = Append(@, f)]
         ELSE IF ALLOW /\ Len(d) <= MAX_SIZE
              THEN s' = [s EXCEPT !.data = d, !.sent = <<f>>, !.overflowed = TRUE]
              ELSE s' = [s EXCEPT !.phase = "error"]
SZ_Clear == s.phase = "write" /\ s' = [s EXCEPT !.data = <<>>, !.sent = <<>>]
(* Text goes over the NUL that ends the text before it.                    *)
SZ_Print(f) ==
  /\ s.phase = "write" /\ f.type = "string"
  /\ s.sent # <<>> /\ Last(s.sent).type = "string"
  /\ LET joined == [type |-> "string", value |-> Last(s.sent).value \o f.value]
     IN  /\ Fits(f.value)
         /\ s' = [s EXCEPT !.data = Front(@) \o Encoded(f), !.sent = Append(Front(@), joined)]

(***************************************************************************)
(* Reading.  A field that does not fit in the rest gives -1 and sets       *)
(* badread; MSG_ReadFloat does not look and may pass the end.              *)
(***************************************************************************)
MSG_BeginReading == s.phase = "write" /\ s' = [s EXCEPT !.phase = "read", !.count = 0, !.bad = FALSE, !.read = <<>>]
At(i) == IF s.count + i <= Len(s.data) THEN s.data[s.count + i] ELSE 0
Rest == IF s.count > Len(s.data) THEN 0 ELSE Len(s.data) - s.count
Width(t) == CASE t \in {"byte", "char", "angle"} -> 1 [] t \in {"short", "coord"} -> 2 [] OTHER -> 4
Decoded(t) ==
  CASE t = "byte" -> At(1)
    [] t \in {"char", "angle"} -> Signed(At(1))
    [] t \in {"short", "coord"} -> At(1) + 256 * Signed(At(2))
    [] t = "long" -> At(1) + 256 * At(2) + 65536 * At(3) + 16777216 * Signed(At(4))
(* MSG_ReadString takes characters up to the NUL, or a byte 255, which     *)
(* MSG_ReadChar returns as -1.                                             *)
Terminators == {i \in 1..Rest : At(i) \in {0, 255}}
MSG_ReadString ==
  LET n == IF Terminators = {} THEN Rest ELSE (CHOOSE i \in Terminators : \A j \in Terminators : i <= j) - 1
  IN  [text |-> [i \in 1..n |-> At(i)], taken |-> IF n < Rest THEN n + 1 ELSE n]
Got(f, n, bad) == s' = [s EXCEPT !.read = Append(@, f), !.count = @ + n, !.bad = @ \/ bad]
Read(t) ==
  /\ s.phase = "read" /\ Len(s.read) < FIELDS
  /\ CASE t = "string" -> Got([type |-> t, value |-> MSG_ReadString.text], MSG_ReadString.taken,
                              Terminators = {})
       [] t = "float" -> Got([type |-> t, value |-> <<At(1), At(2), At(3), At(4)>>], 4, FALSE)
       [] OTHER -> IF Rest < Width(t) THEN Got([type |-> t, value |-> -1], 0, TRUE)
                   ELSE Got([type |-> t, value |-> Decoded(t)], Width(t), FALSE)

(***************************************************************************)
(* Lists: ClearLink makes a node its own list.                             *)
(***************************************************************************)
Head0 == CHOOSE n \in Nodes : TRUE
RemoveLink(l, n) ==
  LET a == [l EXCEPT !.prev[l.next[n]] = l.prev[n]] IN [a EXCEPT !.next[a.prev[n]] = a.next[n]]
InsertLinkBefore(l, n, b) ==
  LET a == [l EXCEPT !.next[n] = b, !.prev[n] = l.prev[b]]
      c == [a EXCEPT !.next[a.prev[n]] = n]
  IN  [c EXCEPT !.prev[c.next[n]] = n]
InsertLinkAfter(l, n, b) ==
  LET a == [l EXCEPT !.next[n] = l.next[b], !.prev[n] = b]
      c == [a EXCEPT !.next[a.prev[n]] = n]
  IN  [c EXCEPT !.prev[c.next[n]] = n]
(* SV_UnlinkEdict and SV_LinkEdict: a node is removed only while linked.   *)
Link(n, before) ==
  /\ s.phase = "links" /\ n # Head0 /\ n \notin s.linked
  /\ s' = [s EXCEPT !.links = IF before THEN InsertLinkBefore(@, n, Head0) ELSE InsertLinkAfter(@, n, Head0),
                    !.linked = @ \cup {n}, !.order = IF before THEN Append(@, n) ELSE <<n>> \o @]
Unlink(n) ==
  /\ s.phase = "links" /\ n \in s.linked
  /\ s' = [s EXCEPT !.links = RemoveLink(@, n), !.linked = @ \ {n}, !.order = SelectSeq(@, LAMBDA m : m # n)]

Init == \E p \in {"write", "links"} :
        s = [phase |-> p, data |-> <<>>, sent |-> <<>>, overflowed |-> FALSE, count |-> 0, bad |-> FALSE, read |-> <<>>,
             links |-> [next |-> [n \in Nodes |-> n], prev |-> [n \in Nodes |-> n]], linked |-> {}, order |-> <<>>]
Next ==
  \/ \E f \in Fields : SZ_Write(f) \/ SZ_Print(f)
  \/ SZ_Clear \/ MSG_BeginReading
  \/ \E t \in {f.type : f \in Fields} : Read(t)
  \/ \E n \in Nodes : Link(n, TRUE) \/ Link(n, FALSE) \/ Unlink(n)

(* What a field is after a round trip: numbers modulo their width, and     *)
(* coordinates and angles in the units of the message.                     *)
Wrapped(v, w) == ((v + w \div 2) % w) - (w \div 2)
Arrives(f) ==
  CASE f.type = "byte" -> f.value % 256
    [] f.type = "char" -> Wrapped(f.value, 256)
    [] f.type = "short" -> Wrapped(f.value, 65536)
    [] f.type = "coord" -> Wrapped(Truncated(f.value, 2), 65536)
    [] f.type = "angle" -> Wrapped(Truncated(f.value * 256, 360), 256)
    [] OTHER -> f.value
Agree == \A i \in 1..Len(s.read) : i <= Len(s.sent) /\ s.read[i].type = s.sent[i].type

(* A message that is read with the types it was written with gives every   *)
(* field since the buffer last overflowed, exactly up to the field's       *)
(* width, is not marked bad, and ends with the last field; reading on      *)
(* marks it.  Only MSG_ReadFloat passes the end of the message.            *)
MessagesArrive ==
  /\ Len(s.data) <= MAX_SIZE /\ (s.count <= Len(s.data) \/ \E i \in DOMAIN s.read : s.read[i].type = "float")
  /\ s.phase = "read" /\ Agree =>
       /\ ~s.bad /\ \A i \in 1..Len(s.read) : s.read[i].value = Arrives(s.sent[i])
       /\ Len(s.read) = Len(s.sent) => s.count = Len(s.data)
  /\ s.phase = "read" /\ Len(s.read) > Len(s.sent) /\ (\A i \in 1..Len(s.sent) : s.read[i].type = s.sent[i].type) =>
       s.bad \/ s.count > Len(s.data)
(* The links run around the list in its order, forward and backward.       *)
LinksRunAround ==
  LET t == <<Head0>> \o s.order
      After(i) == t[IF i = Len(t) THEN 1 ELSE i + 1]
  IN  \A i \in 1..Len(t) : s.links.next[t[i]] = After(i) /\ s.links.prev[After(i)] = t[i]
=============================================================================
