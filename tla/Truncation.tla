----------------------------- MODULE Truncation -----------------------------
(***************************************************************************)
(* What harness/truncation.py does to a tool's result before it is logged  *)
(* and enters the history.  What it measures is the JSON form, what it     *)
(* cuts of a string are its characters: a character is known by its width  *)
(* in JSON, which is one, two for a newline or a quote, six or twelve for  *)
(* what is escaped as \uXXXX.  A string is the sequence of its characters, *)
(* a list the sequence of its items' sizes, a dict the sequence of its     *)
(* values, which are strings; a key has one character.                     *)
(*                                                                         *)
(* The siblings nothing uses (RoomIgnored, ...) are forms a plausible bug  *)
(* would give a definition, for checking the property.                     *)
(***************************************************************************)
EXTENDS Integers, Sequences

Widths == {1, 2, 6, 12}
Suffix == 15         \* "... [truncated]"
ListEnvelope == 55   \* {"items": [], "_truncated": true, "_original_count": 9}
DictEnvelope == 64   \* {"_truncated": true, "_original_keys": [], "available_keys": []}

Total(sizes) ==
  LET total[k \in 0..Len(sizes)] == IF k = 0 THEN 0 ELSE total[k - 1] + sizes[k]
  IN total[Len(sizes)]
Larger(a, b) == IF a > b THEN a ELSE b

(* json.dumps: quotes, and ", " between items.                             *)
Commas(n) == Larger(0, 2 * (n - 1))
StrSize(text) == 2 + Total(text)
ListSize(items) == 2 + Total(items) + Commas(Len(items))
KeySize == 3
KeyList(n) == n * KeySize + Commas(n)
Entry(size) == KeySize + 2 + size
DictSize(values) ==
  2 + Total([k \in DOMAIN values |-> Entry(StrSize(values[k]))]) + Commas(Len(values))

-----------------------------------------------------------------------------
(* truncate_for_tool leaves alone what fits, and everything at limit 0.    *)
Fits(size, limit) == limit <= 0 \/ size <= limit

(* A truncated string: the characters there is room for and the marker.    *)
Smaller(a, b) == IF a < b THEN a ELSE b
Marker == [k \in 1..Suffix |-> 1]
TruncatedStr(text, limit) ==
  SubSeq(text, 1, Smaller(Larger(0, limit - Suffix), Len(text))) \o Marker

(* _truncate_list counts a comma of one character for every item.          *)
RoomIgnored(items, k, limit) == ListEnvelope + Total(SubSeq(items, 1, k)) <= limit
Room(items, k, limit) == ListEnvelope + Total(SubSeq(items, 1, k)) + k <= limit
KeptItems(items, limit) ==
  {k \in 0..Len(items) : \A j \in 1..k : Room(items, j, limit)}
TruncatedListSize(items, k) == ListEnvelope + Total(SubSeq(items, 1, k)) + Commas(k)

(* _truncate_dict takes each value whole, or cut to what room is left, or  *)
(* drops its key, which it lists behind the measuring.                     *)
TakeValue(limit, acc, text) ==
  LET size == acc.size + 2 + Entry(StrSize(text))
      room == limit - acc.size - KeySize - 2
      cut == TruncatedStr(text, room)
      cutSize == acc.size + 2 + Entry(StrSize(cut))
  IN IF size <= limit THEN [acc EXCEPT !.size = size]
     ELSE IF room > 0 /\ cutSize <= limit THEN [acc EXCEPT !.size = cutSize]
     ELSE [acc EXCEPT !.dropped = @ + 1]
TruncatedDict(values, limit) ==
  LET left[k \in 0..Len(values)] ==
        IF k = 0 THEN [size |-> DictEnvelope + KeyList(Len(values)), dropped |-> 0]
        ELSE TakeValue(limit, left[k - 1], values[k])
  IN left[Len(values)]

-----------------------------------------------------------------------------
(* What is left of a result is over the limit by no more than what the     *)
(* code does not count: a string's quotes, and its escapes, which multiply *)
(* the limit by the width of its widest character; the second character of *)
(* a list's ", "; and the names of the keys a dict lost, which it lists    *)
(* behind the measuring; as long as the markers themselves fit.            *)
Bounded(limit, text, items, values) ==
  /\ ~Fits(StrSize(text), limit) /\ limit >= Suffix =>
       \A w \in Widths : text \in Seq(1..w) => StrSize(TruncatedStr(text, limit)) <= 2 + w * limit
  /\ ~Fits(ListSize(items), limit) /\ limit >= ListEnvelope =>
       \A k \in KeptItems(items, limit) :
         TruncatedListSize(items, k) <= limit + Larger(0, k - 2)
  /\ LET left == TruncatedDict(values, limit)
     IN ~Fits(DictSize(values), limit) /\ limit >= DictEnvelope + KeyList(Len(values)) =>
          left.size + KeyList(left.dropped) <= limit + KeyList(Len(values))
=============================================================================
