----------------------------- MODULE BlfStream -----------------------------
(***************************************************************************)
(* The reader of .blf files: BlfParser::parse, getObject and parseObject.  *)
(* A file is a sequence of top-level objects.  The data of its containers, *)
(* put end to end, are a stream of objects that may be cut anywhere: in an *)
(* object, in its header or in the padding after it.  The reader carries   *)
(* the incomplete end of a container over to the next one, in remain.      *)
(*                                                                         *)
(* A byte array is an interval of the stream, lo its first byte and hi the *)
(* first one after it.  That is exact while remain is adjacent to the      *)
(* container it is prepended to; the model stops when it is not.  The      *)
(* signature is taken to occur nowhere but at the start of an object.  The *)
(* file may end anywhere: the bytes that the last container lacks are      *)
(* zeros, from the position real on.                                       *)
(***************************************************************************)
EXTENDS Integers, Sequences, SequencesExt

CONSTANTS
  Streams,       \* sequences of objects: where each starts, its size, its type
  Cuts,          \* for each, the positions where a container may end
  MaxContainers  \* bound: how many top-level objects a file has

signatureSize == 4
objHeaderSize == 16
sizeAt == 8         \* where the header's field of the size begins
sizeEnd == 12       \* and where it ends and that of the type begins

(* The padding that getObject skips after an object.                       *)
Padding(size) == size % 4

After(object) == object.at + object.size + Padding(object.size)

(* What LogParser assumes of the constants.                                *)
StreamsAssumption ==
  /\ MaxContainers \in Nat /\ Cuts \in [Streams -> SUBSET Nat]
  /\ \A s \in Streams :
       /\ s \in Seq([at : Nat, size : Nat, can : BOOLEAN])
       /\ \A k \in DOMAIN s : /\ s[k].at = IF k = 1 THEN 0 ELSE After(s[k - 1])
                              /\ s[k].size >= objHeaderSize

VARIABLES
  stream,         \* the objects of the file
  filePos,        \* how much of the stream the containers read so far held
  containers,     \* how many top-level objects were read
  containerData,  \* the rest of the container
  remain,         \* the bytes carried over
  real,           \* where the bytes of the file end
  messages,       \* the objects that were appended
  pc,             \* "open", "getObject", in its loop over "parseObject",
                  \* "done", "thrown", or "mixed": bytes of different places
                  \* were put together
  skipped,        \* history: a container was not parsed
  paddingCut      \* history: a container ended before or in a padding

file == <<stream, filePos, containers, real>>
history == <<skipped, paddingCut>>
vars == <<stream, filePos, containers, real, containerData, remain, messages, pc, skipped,
          paddingCut>>

Size(bytes) == bytes.hi - bytes.lo
Empty == [lo |-> 0, hi |-> 0]

End(k) == stream[k].at + stream[k].size
Least(m, n) == IF m < n THEN m ELSE n
StreamEnd == IF stream = <<>> THEN 0 ELSE After(Last(stream))

TypeOK ==
  /\ stream \in Streams
  /\ filePos \in 0 .. StreamEnd
  /\ containers \in 0 .. MaxContainers
  /\ \A bytes \in {containerData, remain} :
       bytes.lo \in Nat /\ bytes.hi \in bytes.lo .. filePos
  /\ messages \in Seq(DOMAIN stream)
  /\ real \in 0 .. StreamEnd
  /\ pc \in {"open", "getObject", "parseObject", "done", "thrown", "mixed"}
  /\ skipped \in BOOLEAN /\ paddingCut \in BOOLEAN

Init ==
  /\ stream \in Streams
  /\ filePos = 0 /\ containers = 0 /\ real = StreamEnd
  /\ containerData = Empty /\ remain = Empty
  /\ messages = <<>>
  /\ pc = "open"
  /\ skipped = FALSE /\ paddingCut = FALSE

-----------------------------------------------------------------------------
(* parseObject.                                                            *)

(* The objects whose signature is in the bytes, from a position on.        *)
Signatures(bytes, from) ==
  {k \in DOMAIN stream :
     stream[k].at >= from /\ stream[k].at + signatureSize <= Least(bytes.hi, real)}

(* indexOf("LOBJ", from); only for bytes that have the signature.          *)
IndexOf(bytes, from) ==
  CHOOSE k \in Signatures(bytes, from) : \A j \in Signatures(bytes, from) : k <= j

(* The object's size, read as 0 if the bytes end before it; of its four    *)
(* bytes those beyond the end of the file are zeros: what is left of it is *)
(* its remainder by the weight of the first of these.                      *)
weight == <<256, 65536, 16777216>>

ObjSize(bytes, k) ==
  LET place == stream[k].at + sizeAt
  IN  IF stream[k].at + sizeEnd > bytes.hi \/ real <= place THEN 0
      ELSE IF stream[k].at + sizeEnd <= real THEN stream[k].size
      ELSE stream[k].size % weight[real - place]

(* Its type is read as that of a CAN message.                              *)
IsMessage(k) == stream[k].can /\ stream[k].at + sizeEnd < real

(* Mutant: the object that was read stays in the bytes.                    *)
NextAtSame(bytes, nextPos) == bytes.lo

(* Where the loop goes on after a complete object that ends at nextPos: at *)
(* the next signature, or past a padding computed from the position in the *)
(* bytes; remove() takes no more than there is.                            *)
NextAt(bytes, nextPos) ==
  IF Signatures(bytes, nextPos) # {} THEN stream[IndexOf(bytes, nextPos)].at
  ELSE LET to == nextPos + ((nextPos - bytes.lo) % 4)
       IN  IF to < bytes.hi THEN to ELSE bytes.hi

(* The loop of getObject goes on while there are data.                     *)
Loop(data) ==
  /\ containerData' = data
  /\ pc' = IF Size(data) = 0 THEN "getObject" ELSE "parseObject"

(* After an object it breaks if nothing would be removed.                  *)
LoopFrom(bytes, next) ==
  Loop(IF next > bytes.lo THEN [lo |-> next, hi |-> bytes.hi] ELSE Empty)

(* Mutant: bytes without a header are dropped.                             *)
CarryOverNothing(bytes) ==
  /\ remain' = Empty
  /\ Loop([lo |-> bytes.hi, hi |-> bytes.hi])
  /\ UNCHANGED messages

(* The incomplete bytes are kept for the next container.                   *)
CarryOver(bytes) ==
  /\ remain' = bytes
  /\ Loop([lo |-> bytes.hi, hi |-> bytes.hi])
  /\ UNCHANGED messages

(* Mutant: without a signature the loop goes on.                           *)
GiveUpContinues == UNCHANGED <<containerData, pc, remain, messages>>

(* Without a signature the loop breaks, and remain stays as it was.        *)
GiveUp ==
  /\ containerData' = Empty
  /\ pc' = "getObject"
  /\ UNCHANGED <<remain, messages>>

(* Mutant: what was carried over is not forgotten.                         *)
TakeObjectKeepsRemain(bytes, k) ==
  LET nextPos == stream[k].at + ObjSize(bytes, k)
  IN  /\ messages' = IF nextPos = End(k) /\ IsMessage(k) THEN Append(messages, k)
                                                          ELSE messages
      /\ LoopFrom(bytes, NextAt(bytes, nextPos))
      /\ UNCHANGED remain

(* Object k is complete, or its size was not read: then its type was not   *)
(* read either, and it is no message.                                      *)
TakeObject(bytes, k) ==
  LET nextPos == stream[k].at + ObjSize(bytes, k)
  IN  /\ remain' = Empty
      /\ messages' = IF nextPos = End(k) /\ IsMessage(k) THEN Append(messages, k)
                                                          ELSE messages
      /\ LoopFrom(bytes, NextAt(bytes, nextPos))

(* One iteration: remain is prepended, and parseObject called.             *)
ParseObject ==
  /\ pc = "parseObject"
  /\ \/ /\ Size(remain) # 0 /\ remain.hi # containerData.lo
        /\ pc' = "mixed"
        /\ UNCHANGED <<containerData, remain, messages>>
     \/ /\ Size(remain) = 0 \/ remain.hi = containerData.lo
        /\ LET bytes == [containerData EXCEPT !.lo = IF Size(remain) = 0 THEN @ ELSE remain.lo]
               k     == IndexOf(bytes, bytes.lo)
           IN  \/ /\ Size(bytes) < objHeaderSize
                  /\ CarryOver(bytes)
               \/ /\ Size(bytes) >= objHeaderSize
                  /\ Signatures(bytes, bytes.lo) = {}
                  /\ GiveUp
               \/ /\ Size(bytes) >= objHeaderSize
                  /\ Signatures(bytes, bytes.lo) # {}
                  /\ IF stream[k].at + ObjSize(bytes, k) > bytes.hi
                     THEN CarryOver(bytes)
                     ELSE TakeObject(bytes, k)
  /\ UNCHANGED <<file, history>>

-----------------------------------------------------------------------------
(* parse up to its loop, and getObject on the next top-level object.       *)

(* The file cannot be opened, or its signature is another one.             *)
Open ==
  /\ pc = "open"
  /\ pc' \in {"getObject", "thrown"}
  /\ UNCHANGED <<file, containerData, remain, messages, history>>

CutsPadding(to) ==
  \E k \in DOMAIN stream : End(k) <= to /\ to < After(stream[k])

(* An object of the file with the bytes of the stream up to some position. *)
NextObject(to) ==
  /\ pc = "getObject" /\ to >= filePos
  /\ containers < MaxContainers /\ real = StreamEnd
  /\ containers' = containers + 1
  /\ filePos' = to
  /\ paddingCut' = (paddingCut \/ CutsPadding(to))
  /\ UNCHANGED stream

(* A container that can be parsed.                                         *)
Container(to) ==
  /\ NextObject(to)
  /\ Loop([lo |-> filePos, hi |-> to])
  /\ UNCHANGED <<real, remain, messages, skipped>>

(* The last one, without compression, of which the file has not all bytes. *)
TruncatedContainer(to) ==
  /\ NextObject(to)
  /\ real' \in {r \in Cuts[stream] : filePos <= r /\ r < to}
  /\ Loop([lo |-> filePos, hi |-> to])
  /\ UNCHANGED <<remain, messages, skipped>>

(* One whose method is unknown, or that cannot be uncompressed.            *)
SkippedContainer(to) ==
  /\ NextObject(to)
  /\ to > filePos
  /\ skipped' = TRUE
  /\ UNCHANGED <<real, containerData, remain, messages, pc>>

(* An object of another type.                                              *)
OtherObject ==
  /\ NextObject(filePos)
  /\ UNCHANGED <<real, containerData, remain, messages, pc, skipped>>

(* The file ends in the header of an object: its size is 0, from which the *)
(* header's is subtracted in 32 bits, and there may be no room for what is *)
(* left, 2^32 - 16 bytes.                                                  *)
HeaderCut ==
  /\ pc = "getObject"
  /\ real = StreamEnd
  /\ pc' \in {"done", "thrown"}
  /\ UNCHANGED <<file, containerData, remain, messages, history>>

(* The end of the file, or another signature.                              *)
Done ==
  /\ pc = "getObject"
  /\ pc' = "done"
  /\ UNCHANGED <<file, containerData, remain, messages, history>>

GetObject ==
  \/ \E to \in Cuts[stream] \cap (0 .. StreamEnd) :
       Container(to) \/ SkippedContainer(to) \/ TruncatedContainer(to)
  \/ OtherObject \/ HeaderCut
  \/ Done

Next == Open \/ GetObject \/ ParseObject

Spec == Init /\ [][Next]_vars

-----------------------------------------------------------------------------
(* Whether some of the messages may be lost: a container was skipped, was  *)
(* cut before or in a padding, or is not whole.                            *)
Lossy == skipped \/ paddingCut \/ real < StreamEnd

(* The messages that the containers so far have held to their end.         *)
Met == {k \in DOMAIN stream : stream[k].can /\ End(k) <= filePos}

(* Bytes from different places of the stream are parsed as one object only *)
(* if a container was skipped, or one ended before or in a padding.        *)
MixedOnlyAfterLoss == pc = "mixed" => skipped \/ paddingCut

-----------------------------------------------------------------------------
(* What the code does not meet: TLC finds a counterexample (see README.md). *)

(* "Not enough data to parse, continue at the next object": which messages *)
(* are returned does not depend on where the containers are cut.           *)
NoCutMatters ==
  pc = "done" /\ ~skipped /\ real = StreamEnd => Range(messages) = Met
=============================================================================
