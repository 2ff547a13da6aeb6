---------------------------- MODULE IpDecisionDB ----------------------------
(***************************************************************************)
(* crowdsec-http-middleware/src/IpDecisionDB.ts: decisions indexed by      *)
(* CIDR.  An address is a number of its family; a network is a prefix of   *)
(* bits, stored under the number shifted right, in a table per mask        *)
(* length; a lookup walks the mask lengths in use, the longest first.      *)
(*                                                                         *)
(* IPv4 numbers are JavaScript numbers, shifted with >>>, which takes its  *)
(* shift count modulo the width (32); IPv6 numbers are bigints.  A lookup  *)
(* shifts an IPv4 address by the mask of an IPv6 network, too, and the     *)
(* other way round: only the type of the key keeps them apart.             *)
(***************************************************************************)
EXTENDS Integers, Sequences, SequencesExt, FiniteSets

CONSTANTS
  V4Bits,      \* width of an IPv4 address (32)
  V6Bits,      \* width of an IPv6 address (128)
  Tags,        \* what tells apart the decisions on one value
  MaxEntries   \* bound: decisions in the index

ASSUME IndexAssumption ==
  /\ V4Bits \in Nat \ {0}
  /\ V6Bits \in Nat
  /\ V4Bits < V6Bits
  /\ MaxEntries \in Nat

Family == {"v4", "v6"}

Width(family) == IF family = "v4" THEN V4Bits ELSE V6Bits

Pow2[n \in 0..V6Bits] == IF n = 0 THEN 1 ELSE 2 * Pow2[n - 1]

\* AddressObject: bigInt() and subnetMask; the host bits of a network are kept.
\* IPv4-mapped addresses were unwrapped before (getIpObject), outside this module.
AddressObject ==
  UNION {[family : {f}, number : 0..(Pow2[Width(f)] - 1), mask : 0..Width(f)]
           : f \in Family}

\* The address of a visitor.
Host(ip) == ip.mask = Width(ip.family)

\* The stored values; the value of a decision is the string of its network.
Stored == [value : AddressObject, tag : Tags]

VARIABLES
  masks,        \* masks: mask length -> (key -> decisions)
  activeMasks,  \* activeMasks
  entries       \* history: the decisions in the index, as they were inserted

vars == <<masks, activeMasks, entries>>

NoTable == <<>>   \* a Map without entries

Set(map, key, value) ==
  [k \in DOMAIN map \cup {key} |-> IF k = key THEN value ELSE map[k]]

Drop(map, keys) == [k \in DOMAIN map \ keys |-> map[k]]

\* Array.filter: what is in S, in its order.
Among(s, S) ==
  LET kept[i \in 0..Len(s)] ==
        IF i = 0 THEN <<>>
        ELSE IF s[i] \in S THEN Append(kept[i - 1], s[i]) ELSE kept[i - 1]
  IN  kept[Len(s)]

Without(s, gone) == Among(s, ToSet(s) \ gone)

\* Array.sort, the largest first.
Descending(s) ==
  LET order == CHOOSE p \in Bijection(DOMAIN s, DOMAIN s) :
                 \A i, j \in DOMAIN s : i < j => s[p[i]] >= s[p[j]]
  IN  [i \in DOMAIN s |-> s[order[i]]]

-----------------------------------------------------------------------------
\* Mutant of KeyFor: the numbers of both families are of one type.
KeyForUntyped(ip, mask) ==
  [type |-> "number",
   n |-> ip.number \div Pow2[(Width(ip.family) - mask) % Width(ip.family)]]

\* "numeric >>> (32 - mask)", or "numeric >> BigInt(128 - mask)".
KeyFor(ip, mask) ==
  IF ip.family = "v4"
  THEN [type |-> "number", n |-> ip.number \div Pow2[(V4Bits - mask) % V4Bits]]
  ELSE [type |-> "bigint", n |-> ip.number \div Pow2[V6Bits - mask]]

Lookup(ip) ==
  LET Hits(mask) == IF KeyFor(ip, mask) \in DOMAIN masks[mask]
                    THEN masks[mask][KeyFor(ip, mask)] ELSE <<>>
      hit == {i \in DOMAIN activeMasks : Hits(activeMasks[i]) # <<>>}
      first == CHOOSE i \in hit : \A j \in hit : i <= j
  IN  IF hit = {} THEN <<>> ELSE <<Hits(activeMasks[first])[1]>>

-----------------------------------------------------------------------------
Init ==
  /\ masks = NoTable
  /\ activeMasks = <<>>
  /\ entries = <<>>

\* insert(): a /0 network throws.
Insert(d) ==
  LET mask == d.value.mask
      bucket == IF mask \in DOMAIN masks THEN masks[mask] ELSE NoTable
      key == KeyFor(d.value, mask)
      decisions == IF key \in DOMAIN bucket THEN bucket[key] ELSE <<>>
  IN  /\ mask # 0
      /\ Len(entries) < MaxEntries
      /\ masks' = Set(masks, mask, Set(bucket, key, Append(decisions, d)))
      /\ activeMasks' = IF mask \in ToSet(activeMasks) THEN activeMasks
                        ELSE Descending(Append(activeMasks, mask))
      /\ entries' = Append(entries, d)

\* Mutant of WithoutBucket: a table that has become empty stays active.
KeepBucket(mask, bucket) ==
  /\ masks' = IF DOMAIN bucket = {} THEN Drop(masks, {mask})
              ELSE Set(masks, mask, bucket)
  /\ UNCHANGED activeMasks

\* A table that has become empty goes, and its mask length with it.
WithoutBucket(mask, bucket) ==
  IF DOMAIN bucket = {}
  THEN /\ masks' = Drop(masks, {mask})
       /\ activeMasks' = Without(activeMasks, {mask})
  ELSE /\ masks' = Set(masks, mask, bucket)
       /\ UNCHANGED activeMasks

\* delete(): the decisions of one network that match, here those of the same
\* value and tag (BouncerMiddleware's isSameDecision).
Delete(d) ==
  LET mask == d.value.mask
      bucket == masks[mask]
      key == KeyFor(d.value, mask)
      filtered == Without(bucket[key], {d})
  IN  /\ mask \in DOMAIN masks
      /\ key \in DOMAIN bucket
      /\ Len(filtered) # Len(bucket[key])
      /\ WithoutBucket(mask, IF filtered = <<>> THEN Drop(bucket, {key})
                             ELSE Set(bucket, key, filtered))
      /\ entries' = Without(entries, {d})

\* removeIf(): every decision that matches, here those of a tag.
RemoveIf(tag) ==
  LET gone == [value : AddressObject, tag : {tag}]
      Kept(bucket) ==
        LET left == [k \in DOMAIN bucket |-> Without(bucket[k], gone)]
        IN  Drop(left, {k \in DOMAIN bucket : left[k] = <<>>})
      emptied == {m \in DOMAIN masks : DOMAIN Kept(masks[m]) = {}}
  IN  /\ masks' = Drop([m \in DOMAIN masks |-> Kept(masks[m])], emptied)
      /\ activeMasks' = Without(activeMasks, emptied)
      /\ entries' = Without(entries, gone)

Next ==
  \/ \E d \in Stored : Insert(d) \/ Delete(d)
  \/ \E tag \in Tags : RemoveIf(tag)

Spec == Init /\ [][Next]_vars

-----------------------------------------------------------------------------
(* Properties                                                              *)

\* What a CIDR means: an address is in a network when it is of the same family
\* and their first "mask" bits are the same.
Bit(ip, i) == (ip.number \div Pow2[Width(ip.family) - i]) % 2

InSubnet(ip, network) ==
  /\ ip.family = network.family
  /\ \A i \in 1..network.mask : Bit(ip, i) = Bit(network, i)

\* The lookup finds what a scan over all decisions would find: the oldest of
\* the decisions on the smallest networks around the address, and nothing if
\* the address is in no network; whatever was inserted and removed before,
\* and whatever networks of the other family are in the index.
LookupIsLongestPrefix ==
  \A ip \in {a \in AddressObject : Host(a)} :
    LET around == Among(entries, {d \in ToSet(entries) : InSubnet(ip, d.value)})
        smallest == Among(around, {d \in ToSet(around) :
          \A e \in ToSet(around) : e.value.mask <= d.value.mask})
    IN  Lookup(ip) = IF smallest = <<>> THEN <<>> ELSE <<smallest[1]>>

\* The mask lengths walked by a lookup are those of the tables, each once, the
\* longest first, and no table or bucket is empty: removals leave nothing.
IndexIsTight ==
  /\ ToSet(activeMasks) = DOMAIN masks
  /\ \A i, j \in DOMAIN activeMasks : i < j => activeMasks[i] > activeMasks[j]
  /\ \A m \in DOMAIN masks :
       /\ DOMAIN masks[m] # {}
       /\ \A k \in DOMAIN masks[m] : masks[m][k] # <<>>
=============================================================================
