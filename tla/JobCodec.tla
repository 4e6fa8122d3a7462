------------------------------ MODULE JobCodec ------------------------------
(***************************************************************************)
(* A message in a row of the persistent queue (src/src/queue/JobCodec.ts): *)
(* JSON, in which bytes and dates are marked for what they are.  What an   *)
(* attachment is given `as' and the `dates' of a message and its invite    *)
(* change on the way, and a message can be sent when they are back.        *)
(***************************************************************************)
EXTENDS Mime

\* Streams are refused.
Storable(m) == \A i \in DOMAIN m.attachments : m.attachments[i].as # "stream"

\* toWire(), and what versions up to 0.4 wrote.
ToWire(a, version) ==
  [a EXCEPT !.as = IF @ # "bytes" THEN @ ELSE IF version = "legacy" THEN "Buffer" ELSE "$b64"]
EncodeOptions(m, version) ==
  [v |-> version,
   o |-> [m EXCEPT !.attachments = [i \in DOMAIN m.attachments |-> ToWire(m.attachments[i], version)],
                   !.dates = IF version = "legacy" THEN "ISO string" ELSE "$date"]]

\* fromWire() and reviveLegacyDates().
FromWire(a) == [a EXCEPT !.as = IF @ \in {"$b64", "Buffer"} THEN "bytes" ELSE @]
DecodeOptions(row) ==
  [row.o EXCEPT !.attachments = [i \in DOMAIN row.o.attachments |-> FromWire(row.o.attachments[i])],
                !.dates = IF @ = "$date" \/ (@ = "ISO string" /\ row.v = "legacy") THEN "Date" ELSE @]
=============================================================================
