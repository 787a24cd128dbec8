----------------------------- MODULE ElemRewrite -----------------------------
(***************************************************************************)
(* The last part of oscript_finalizeElem, byte by byte: the finalizer's    *)
(* name is put under the last element of vm_i, and the address of that     *)
(* element behind its items, by moving bytes of the region vm_i lies in.   *)
(* OscriptExec takes all of it for one step, PrepareNext.                  *)
(*                                                                         *)
(* A byte is a number and NUL is 0.  An int32 is kept in four bytes, the   *)
(* highest first; the fourth holds the whole number, which no size in the  *)
(* model tells apart from its lowest byte.                                 *)
(***************************************************************************)
EXTENDS Integers

CONSTANTS Cap,      \* the bytes of vm_i's region, those in use and the free ones
          Total,    \* those bytes and the ones of the bundle behind it
          Layouts   \* what vm_i holds when an element has been finalized

VARIABLES mem,      \* the bytes, from the header of vm_i on
          size,     \* those of them that belong to vm_i
          o, s,     \* the last element of vm_i: its offset, its size
          as,       \* the bytes its address takes, with the NULs behind it
          pc,       \* the step that is next
          start     \* history: the layout that was found

vars == <<mem, size, o, s, as, pc, start>>

HeaderLen == 16     \* OSE_BUNDLE_HEADER_LEN
AnonSize == 4       \* OSE_ADDRESS_ANONVAL_SIZE

-----------------------------------------------------------------------------
(* Bytes.                                                                  *)

(* memcpy and memmove: every byte is read before any is written. *)
Move(m, to, from, n) ==
    [i \in DOMAIN m |-> IF i \in to .. to + n - 1 THEN m[i - to + from] ELSE m[i]]

Clear(m, at, n) == [i \in DOMAIN m |-> IF i \in at .. at + n - 1 THEN 0 ELSE m[i]]

Int32(m, at) == m[at + 3]

PutInt32(m, at, n) == [Clear(m, at, 3) EXCEPT ![at + 3] = n]

(* strlen, and the bytes a string of n characters takes. *)
StrLen(m, at) ==
    CHOOSE n \in 0 .. Total - at - 1 :
        m[at + n] = 0 /\ \A k \in 0 .. n - 1 : m[at + k] # 0

PnBytes(n) == 4 * (n \div 4) + 4

Comma == 44
StringTag == 115

(* The message that holds the name of the finalizer, without its size: no  *)
(* address, the typetags, and the 18 characters of /!/o/finalize/elem.     *)
NameChar(k) == 1000 + k
FinalizerLen == AnonSize + 4 + 20
FinalizerBytes ==
    [k \in Nat |-> IF k = 4 THEN Comma
                   ELSE IF k = 5 THEN StringTag
                   ELSE IF k \in 8 .. 25 THEN NameChar(k - 8) ELSE 0]

(* A string of no characters, without the size of its message. *)
EmptyStringLen == 12
EmptyStringBytes ==
    [k \in Nat |-> IF k = 4 THEN Comma ELSE IF k = 5 THEN StringTag ELSE 0]

(* A message of len bytes f is put in front of an element of n bytes at at. *)
Insert(m, at, n, len, f) ==
    LET moved == PutInt32(Move(m, at + 4 + len, at, n + 4), at, len)
    IN  [i \in DOMAIN m |->
            IF i \in at + 4 .. at + 3 + len THEN f[i - at - 4] ELSE moved[i]]

-----------------------------------------------------------------------------
Memory == [0 .. Total - 1 -> Nat]

(* As many bytes lie behind the region as ShiftLeft may reach. *)
ASSUME CapAssumption == Cap \in Nat /\ Total \in Nat /\ 2 * Cap <= Total

(* A string of n characters. *)
IsText(m, at, n) == m[at + n] = 0 /\ \A k \in 0 .. n - 1 : m[at + k] # 0

(* The layouts are those of OSC.  The last element ends where vm_i does;   *)
(* the free bytes behind it are NULs, and room enough for all that is      *)
(* written.  A message has an address and typetags that begin with a comma,*)
(* both with NULs behind them, and its payload.                            *)
ASSUME LayoutAssumption ==
    \A l \in Layouts :
        /\ l.mem \in Memory
        /\ l.last \in Nat /\ l.last >= HeaderLen
        /\ l.size \in Nat /\ l.last + 4 <= l.size
        /\ l.size = l.last + 4 + Int32(l.mem, l.last)
        /\ l.size + FinalizerLen + EmptyStringLen + 8 <= Cap
        /\ \A i \in l.size .. Cap - 1 : l.mem[i] = 0
        /\ l.isMessage \in BOOLEAN
        /\ l.isMessage =>
              LET tags == l.last + 4 + PnBytes(l.addressLen)
                  payload == tags + PnBytes(l.tagsLen)
              IN  /\ l.addressLen \in Nat /\ IsText(l.mem, l.last + 4, l.addressLen)
                  /\ l.tagsLen \in Nat /\ IsText(l.mem, tags, l.tagsLen)
                  /\ \A i \in tags + l.tagsLen .. payload - 1 : l.mem[i] = 0
                  /\ payload <= l.size
                  /\ l.size + FinalizerLen + 8 + PnBytes(l.addressLen) <= Cap

-----------------------------------------------------------------------------
Init ==
    /\ start \in Layouts
    /\ mem = start.mem
    /\ size = start.size
    /\ o = start.last
    /\ s = Int32(mem, o)
    /\ as = 0
    /\ pc = "finalizer"

InsertFinalizer ==
    /\ pc = "finalizer"
    /\ mem' = Insert(mem, o, s, FinalizerLen, FinalizerBytes)
    /\ size' = size + FinalizerLen + 4
    /\ o' = o + FinalizerLen + 4
    /\ pc' = IF start.isMessage THEN "tags" ELSE "bundle"
    /\ UNCHANGED <<s, as, start>>

(* An empty string is pushed and swapped with the bundle. *)
BundleElem ==
    /\ pc = "bundle"
    /\ mem' = Insert(mem, o, s, EmptyStringLen, EmptyStringBytes)
    /\ size' = size + EmptyStringLen + 4
    /\ o' = o + EmptyStringLen + 4
    /\ pc' = "done"
    /\ UNCHANGED <<s, as, start>>

(* Variants: the typetags are taken to have room for one more, and the     *)
(* size of the bundle does not follow that of the message.                 *)
TagAddressNoRoom ==
    /\ pc = "tags"
    /\ as' = PnBytes(StrLen(mem, o + 4))
    /\ LET tto == o + 4 + as'
       IN  mem' = [mem EXCEPT ![tto + StrLen(mem, tto)] = StringTag]
    /\ pc' = IF as' = AnonSize THEN "short" ELSE "copy"
    /\ UNCHANGED <<s, size, o, start>>

TagAddressNoIncSize ==
    /\ pc = "tags"
    /\ as' = PnBytes(StrLen(mem, o + 4))
    /\ LET tto == o + 4 + as'
           nt == StrLen(mem, tto)
           plo == tto + PnBytes(nt)
           grow == IF PnBytes(nt + 1) # plo - tto THEN 4 ELSE 0
           room == IF grow = 0 THEN mem
                   ELSE PutInt32(Clear(Move(mem, plo + 4, plo, s - (plo - (o + 4))),
                                       plo, 4),
                                 o, s + 4)
       IN /\ mem' = [room EXCEPT ![tto + nt] = StringTag]
          /\ s' = s + grow
    /\ pc' = IF as' = AnonSize THEN "short" ELSE "copy"
    /\ UNCHANGED <<size, o, start>>

(* One more typetag, for the address; if that takes four bytes more, the   *)
(* payload makes room for them.                                            *)
TagAddress ==
    /\ pc = "tags"
    /\ as' = PnBytes(StrLen(mem, o + 4))
    /\ LET tto == o + 4 + as'
           nt == StrLen(mem, tto)
           plo == tto + PnBytes(nt)
           grow == IF PnBytes(nt + 1) # plo - tto THEN 4 ELSE 0
           room == IF grow = 0 THEN mem
                   ELSE PutInt32(Clear(Move(mem, plo + 4, plo, s - (plo - (o + 4))),
                                       plo, 4),
                                 o, s + 4)
       IN /\ mem' = [room EXCEPT ![tto + nt] = StringTag]
          /\ size' = size + grow
          /\ s' = s + grow
    /\ pc' = IF as' = AnonSize THEN "short" ELSE "copy"
    /\ UNCHANGED <<o, start>>

(* An address of up to three characters is as long as the anonymous one. *)
ShortAddress ==
    /\ pc = "short"
    /\ size' = size + AnonSize
    /\ s' = s + AnonSize
    /\ mem' = Clear(Move(PutInt32(mem, o, s'), o + s', o + 4, AnonSize),
                    o + 4, AnonSize)
    /\ pc' = "done"
    /\ UNCHANGED <<o, as, start>>

(* A longer one is copied behind the message, ...                          *)
CopyAddress ==
    /\ pc = "copy"
    /\ size' = size + as
    /\ mem' = Move(mem, o + s + 4, o + 4, as)
    /\ pc' = "shift"
    /\ UNCHANGED <<o, s, as, start>>

(* Variants: the message is moved without the address behind it, and with  *)
(* as many bytes as the bundle has.                                        *)
ShiftLeftNoAddress ==
    /\ pc = "shift"
    /\ mem' = Move(mem, o + 4 + AnonSize, o + 4 + as, s - as)
    /\ pc' = "anonymous"
    /\ UNCHANGED <<size, o, s, as, start>>

ShiftLeftBundle ==
    /\ pc = "shift"
    /\ mem' = Move(mem, o + 4 + AnonSize, o + 4 + as, (s - as) + size)
    /\ pc' = "anonymous"
    /\ UNCHANGED <<size, o, s, as, start>>

(* ... everything behind the address is shifted left to follow the         *)
(* anonymous one: the rest of the message and as many bytes as the offset  *)
(* of the address counts, ...                                              *)
ShiftLeft ==
    /\ pc = "shift"
    /\ mem' = Move(mem, o + 4 + AnonSize, o + 4 + as, (s - as) + (o + 4))
    /\ pc' = "anonymous"
    /\ UNCHANGED <<size, o, s, as, start>>

(* ... the anonymous address is put in its place, ...                      *)
AnonymousAddress ==
    /\ pc = "anonymous"
    /\ mem' = Clear(mem, o + 4, AnonSize)
    /\ pc' = "behind"
    /\ UNCHANGED <<size, o, s, as, start>>

(* A variant that clears nothing. *)
ClearBehindNot ==
    /\ pc = "behind"
    /\ s' = s + AnonSize
    /\ mem' = PutInt32(mem, o, s')
    /\ size' = size - (as - AnonSize)
    /\ pc' = "done"
    /\ UNCHANGED <<o, as, start>>

(* ... bytes behind the end are cleared, and the sizes are adjusted. *)
ClearBehind ==
    /\ pc = "behind"
    /\ s' = s + AnonSize
    /\ mem' = PutInt32(Clear(mem, o + s + 4 + (as - AnonSize), as - AnonSize),
                       o, s')
    /\ size' = size - (as - AnonSize)
    /\ pc' = "done"
    /\ UNCHANGED <<o, as, start>>

Done == pc = "done" /\ UNCHANGED vars

Next ==
    \/ InsertFinalizer \/ BundleElem \/ TagAddress \/ ShortAddress
    \/ CopyAddress \/ ShiftLeft \/ AnonymousAddress \/ ClearBehind
    \/ Done

Spec == Init /\ [][Next]_vars

-----------------------------------------------------------------------------
(* The parts of the message that was found: its address, its typetags with *)
(* the comma, its payload; and those of the message to be made of it.      *)
oldAs == PnBytes(start.addressLen)
oldTags == start.last + 4 + oldAs
ntt == start.tagsLen
oldPayload == oldTags + PnBytes(ntt)
payloadLen == start.size - oldPayload

newElem == start.last + 4 + FinalizerLen
newTags == newElem + 4 + AnonSize
newPayload == newTags + PnBytes(ntt + 1)
newAddress == newPayload + payloadLen
newEnd == newAddress + oldAs

(* The offset of the address when the message is shifted. *)
addressAt == newElem + 4

(* Bytes are numbers, and the last element ends where vm_i does, but while *)
(* its address is being moved.                                             *)
TypeOK ==
    /\ mem \in Memory
    /\ size \in 0 .. Cap
    /\ {o, s, as} \subseteq 0 .. Cap
    /\ pc \in {"finalizer", "bundle", "tags", "short", "copy", "shift",
               "anonymous", "behind", "done"}
    /\ pc \notin {"shift", "anonymous", "behind"} => size = o + 4 + s

(* The message that is left has no address, the typetags it had and one    *)
(* for a string, its payload, and its address as the last item.            *)
MessageIsPrepared ==
    /\ size = newEnd
    /\ Int32(mem, newElem) = newEnd - newElem - 4
    /\ \A k \in 0 .. AnonSize - 1 : mem[addressAt + k] = 0
    /\ \A k \in 0 .. ntt - 1 : mem[newTags + k] = start.mem[oldTags + k]
    /\ mem[newTags + ntt] = StringTag
    /\ \A k \in newTags + ntt + 1 .. newPayload - 1 : mem[k] = 0
    /\ \A k \in 0 .. payloadLen - 1 :
          mem[newPayload + k] = start.mem[oldPayload + k]
    /\ \A k \in 0 .. oldAs - 1 :
          mem[newAddress + k] = start.mem[start.last + 4 + k]

(* oscript_finalizeElem moves and copies until the message is as it must   *)
(* be, provided the address is no longer than its offset in vm_i: the move *)
(* to the left takes a byte behind the message for every byte in front of  *)
(* the address.                                                            *)
Prepared ==
    pc = "done" /\ start.isMessage /\ oldAs <= addressAt => MessageIsPrepared

(* Bytes behind the end of vm_i are NULs before and after, provided the    *)
(* bytes that are moved or cleared reach all those the copy of the address *)
(* was made in, and none that is not vm_i's: nothing of it is left for the *)
(* next message to be written over.                                        *)
CleanBehind ==
    pc = "done" /\ (start.isMessage => /\ 2 * oldAs <= addressAt + 8
                                      /\ newEnd + addressAt <= Cap) =>
        \A i \in size .. Cap - 1 : mem[i] = 0

(* What lies in front of the element, and what lies behind the region,     *)
(* belongs to others.  The latter is only safe if more of the region is    *)
(* free than the result needs, for bytes that are not in use are moved     *)
(* with it, and others cleared; a region at most half full is enough.      *)
OthersIntact ==
    /\ \A i \in 0 .. start.last - 1 : mem[i] = start.mem[i]
    /\ (start.isMessage => /\ oldAs <= addressAt
                          /\ newEnd + (addressAt - oldAs) <= Cap
                          /\ newEnd + 2 * oldAs <= Cap) =>
          \A i \in Cap .. Total - 1 : mem[i] = start.mem[i]

(* "copy address to end of message" (oscript_exec.c:536): whatever its     *)
(* length, the address is the last item of the message that is left.       *)
AddressAtEndOfMessage ==
    pc = "done" /\ start.isMessage =>
        \A k \in 0 .. oldAs - 1 :
            mem[size - oldAs + k] = start.mem[start.last + 4 + k]
=============================================================================
