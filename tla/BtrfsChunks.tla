---------------------------- MODULE BtrfsChunks ----------------------------
(***************************************************************************)
(* From logical addresses to devices (fs-btrfs chunk, raid56 and           *)
(* volume/mapping, remap and raid_stripe): what a chunk maps an address    *)
(* to, and what a read gets of it when some of the devices are missing.    *)
(*                                                                         *)
(* Addresses and lengths count sectors.  A chunk is                        *)
(*   [logical, length, profile, sub, stripes, data, remapped]              *)
(* with a stripe [dev, off] for each device extent; a volume is            *)
(*   [chunks, remap, strides]                                              *)
(* with the items of its remap tree and, as a sequence of at most one, of  *)
(* its RAID stripe tree.  The medium is a function media[dev][off]: <<v>>  *)
(* for a sector that can be read and <<>> for one that cannot.  A result   *)
(* is <<x>>, or <<>> for an error.                                         *)
(***************************************************************************)
EXTENDS Integers, FiniteSets, SequencesExt, Bitwise

CONSTANT StripeLength   \* BTRFS_STRIPE_LENGTH: 64 KiB in the code

ASSUME StripesAreNotEmpty == StripeLength \in Nat \ {0}

Mirrors == {"Dup", "Raid1", "Raid1C3", "Raid1C4"}
ParityStripes(profile) == CASE profile = "Raid5" -> 1 [] profile = "Raid6" -> 2 [] OTHER -> 0

valid_profile_geometry(profile, count, sub) ==
  CASE profile = "Single" -> count = 1
    [] profile \in {"Dup", "Raid1"} -> count = 2
    [] profile = "Raid0" -> count # 0
    [] profile = "Raid1C3" -> count = 3
    [] profile = "Raid1C4" -> count = 4
    [] profile = "Raid5" -> count >= 2
    [] profile = "Raid6" -> count >= 3
    [] profile = "Raid10" -> sub = 2 /\ count >= sub /\ count % sub = 0

contains(chunk, logical) ==
  logical \in chunk.logical .. chunk.logical + chunk.length - 1

\* Whether the devices at hand are enough for every address of the chunk.
is_readable_with(chunk, devices) ==
  LET n == Len(chunk.stripes)
      Has(i) == chunk.stripes[i].dev \in devices
  IN  CASE chunk.remapped /\ n = 0 -> TRUE
        [] chunk.profile \in {"Single", "Raid0"} -> \A i \in 1 .. n : Has(i)
        [] chunk.profile \in Mirrors -> \E i \in 1 .. n : Has(i)
        [] chunk.profile = "Raid10" ->
             \A g \in 0 .. (n \div chunk.sub) - 1 : \E c \in 1 .. chunk.sub : Has(g * chunk.sub + c)
        [] OTHER -> Cardinality({i \in 1 .. n : ~Has(i)}) <= ParityStripes(chunk.profile)

validate_chunk_devices(chunks, devices) == \A c \in chunks : is_readable_with(c, devices)

(***************************************************************************)
(* `ChunkMapping::map`.  A segment is [locations, length, raid56], the     *)
(* last a sequence of at most one [stripes, data, parity, target], which   *)
(* counts its stripes from 0: the data, then P, then Q.                    *)
(***************************************************************************)
Location(stripe, off) == [dev |-> stripe.dev, off |-> stripe.off + off]
Segment(locations, length) == [locations |-> locations, length |-> length, raid56 |-> <<>>]
Smaller(a, b) == IF a < b THEN a ELSE b

map_mirrored(chunk, relative, maximum) ==
  Segment([i \in DOMAIN chunk.stripes |-> Location(chunk.stripes[i], relative)], maximum)

Within(relative) == relative % StripeLength
Contiguous(relative, maximum) == Smaller(maximum, StripeLength - Within(relative))
StripeOffset(set, relative) == set * StripeLength + Within(relative)

map_raid0(chunk, relative, maximum) ==
  LET number == relative \div StripeLength
      count == Len(chunk.stripes)
      stripe == chunk.stripes[(number % count) + 1]
  IN  Segment(<<Location(stripe, StripeOffset(number \div count, relative))>>,
              Contiguous(relative, maximum))

map_raid10(chunk, relative, maximum) ==
  LET number == relative \div StripeLength
      groups == Len(chunk.stripes) \div chunk.sub
      first == (number % groups) * chunk.sub
  IN  Segment([c \in 1 .. chunk.sub |->
                 Location(chunk.stripes[first + c], StripeOffset(number \div groups, relative))],
              Contiguous(relative, maximum))

map_raid56(chunk, relative, maximum, parity) ==
  LET number == relative \div StripeLength
      count == Len(chunk.stripes)
      data == count - parity
      full == number \div data
      At(index) == Location(chunk.stripes[((full + index) % count) + 1],
                            StripeOffset(full, relative))
  IN  [locations |-> <<At(number % data)>>,
       length |-> Contiguous(relative, maximum),
       raid56 |-> <<[stripes |-> [i \in 0 .. count - 1 |-> At(i)],
                     data |-> data, parity |-> parity, target |-> number % data]>>]

map(chunk, logical, requested) ==
  LET relative == logical - chunk.logical
      maximum == Smaller(chunk.length - relative, requested)
  IN  CASE chunk.profile \in {"Single"} \cup Mirrors -> map_mirrored(chunk, relative, maximum)
        [] chunk.profile = "Raid0" -> map_raid0(chunk, relative, maximum)
        [] chunk.profile = "Raid10" -> map_raid10(chunk, relative, maximum)
        [] OTHER -> map_raid56(chunk, relative, maximum, ParityStripes(chunk.profile))

(***************************************************************************)
(* The trees that redirect a chunk.  Both are searched for the item at or  *)
(* below the address, and the item found must cover it.                    *)
(***************************************************************************)
Predecessor(items, logical) ==
  LET below == {item \in items : item.source <= logical}
  IN  IF below = {} THEN <<>>
      ELSE <<CHOOSE item \in below : \A other \in below : other.source <= item.source>>

Covers(item, logical) == logical < item.source + item.length

\* `translate_remap`: a back reference found in the place of a range is no range.
translate_remap(volume, logical, requested) ==
  LET found == Predecessor(volume.remap, logical)
  IN  IF found = <<>> \/ ~Covers(found[1], logical) \/ found[1].backref THEN <<>>
      ELSE LET offset == logical - found[1].source
           IN  <<[logical |-> found[1].target + offset,
                  length |-> Smaller(found[1].length - offset, requested)]>>

raid_stripe_count(profile) ==
  CASE profile = "Raid0" -> 1
    [] profile \in {"Raid1", "Dup", "Raid10"} -> 2
    [] profile = "Raid1C3" -> 3
    [] profile = "Raid1C4" -> 4

uses_raid_stripe_tree(chunk) ==
  chunk.data /\ chunk.profile \in {"Raid0", "Raid10"} \cup Mirrors

map_raid_stripe(strides, chunk, logical, requested) ==
  LET found == Predecessor(strides, logical)
      item == found[1]
      offset == logical - item.source
  IN  IF \/ found = <<>>
         \/ ~Covers(item, logical)
         \/ item.source < chunk.logical
         \/ item.source + item.length > chunk.logical + chunk.length
         \/ Len(item.stripes) # raid_stripe_count(chunk.profile)
         \/ \E i \in DOMAIN item.stripes :
              \A s \in ToSet(chunk.stripes) : s.dev # item.stripes[i].dev
      THEN <<>>
      ELSE <<Segment([i \in DOMAIN item.stripes |-> Location(item.stripes[i], offset)],
                     Smaller(item.length - offset, requested))>>

ChunkAt(volume, logical) == {chunk \in volume.chunks : contains(chunk, logical)}

\* purpose is "data", "metadata", or "remap" for the remap tree's own blocks.
map_segment(volume, logical, requested, purpose) ==
  LET source == CHOOSE chunk \in ChunkAt(volume, logical) : TRUE
      here == <<[logical |-> logical,
                 length |-> Smaller(source.logical + source.length - logical, requested)]>>
      there == IF purpose # "remap" /\ source.remapped
               THEN translate_remap(volume, logical, here[1].length) ELSE here
      target == CHOOSE chunk \in ChunkAt(volume, there[1].logical) : TRUE
  IN  IF ChunkAt(volume, logical) = {} \/ there = <<>> THEN <<>>
      ELSE IF ChunkAt(volume, there[1].logical) = {} THEN <<>>
      ELSE IF purpose = "data" /\ volume.strides # <<>> /\ uses_raid_stripe_tree(target)
      THEN map_raid_stripe(volume.strides[1], target, there[1].logical, there[1].length)
      ELSE <<map(target, there[1].logical, there[1].length)>>

(***************************************************************************)
(* GF(256) and `reconstruct_data`.                                         *)
(***************************************************************************)
gf_double(v) ==
  IF v < 128 THEN 2 * v ELSE ((2 * v) % 256) ^^ 29
gf_pow2[n \in 0 .. 255] == IF n = 0 THEN 1 ELSE gf_double(gf_pow2[n - 1])
gf_multiply(left, right) ==
  FoldLeft(LAMBDA acc, bit :
             [product |-> IF (right \div 2 ^ bit) % 2 = 1 THEN acc.product ^^ acc.left
                          ELSE acc.product,
              left |-> gf_double(acc.left)],
           [product |-> 0, left |-> left], <<0, 1, 2, 3, 4, 5, 6, 7>>).product
\* The power 254, a square at a time.
gf_inverse(v) ==
  FoldLeft(LAMBDA acc, bit :
             [result |-> IF bit = 0 THEN acc.result ELSE gf_multiply(acc.result, acc.base),
              base |-> gf_multiply(acc.base, acc.base)],
           [result |-> 1, base |-> v], <<0, 1, 1, 1, 1, 1, 1, 1>>).result

\* `read_physical_exact` of length sectors: all of them or an error.
read_physical_exact(media, location, length) ==
  LET got == [i \in 1 .. length |-> media[location.dev][location.off + i - 1]]
  IN  IF \E i \in 1 .. length : got[i] = <<>> THEN <<>>
      ELSE <<[i \in 1 .. length |-> got[i][1]]>>

\* Mutant: P is never the one that is taken for missing.
forced_missing_data_only(raid56, replica) ==
  LET others == SelectSeq([i \in 1 .. raid56.data |-> i - 1], LAMBDA i : i # raid56.target)
  IN  IF replica - 2 \in 0 .. Len(others) - 1 THEN others[replica - 1] ELSE -1

\* The stripe that replica forces to be taken for missing, -1 for none.
forced_missing(raid56, replica) ==
  LET others == SelectSeq([i \in 1 .. raid56.data |-> i - 1], LAMBDA i : i # raid56.target)
      order == Append(others, raid56.data)
  IN  IF replica - 2 \in 0 .. Len(order) - 1 THEN order[replica - 1] ELSE -1

\* What P and Q leave of the bytes of the missing data stripes, read from got[i].
Syndrome(raid56, got, parity, i, weight) ==
  FoldLeft(LAMBDA acc, k : IF got[k] = <<>> THEN acc
                           ELSE acc ^^ gf_multiply(got[k][1][i], weight[k]),
           parity[1][i], [k \in 1 .. raid56.data |-> k - 1])

recover_one(raid56, got, missing, i) ==
  LET p == got[raid56.data]
      ones == [k \in 0 .. raid56.data - 1 |-> 1]
      powers == [k \in 0 .. raid56.data - 1 |-> gf_pow2[k]]
  IN  IF p # <<>> THEN Syndrome(raid56, got, p, i, ones)
      ELSE gf_multiply(Syndrome(raid56, got, got[raid56.data + 1], i, powers),
                       gf_inverse(gf_pow2[missing]))

recover_two(raid56, got, first, second, i) ==
  LET delta_p == Syndrome(raid56, got, got[raid56.data], i, [k \in 0 .. raid56.data - 1 |-> 1])
      delta_q == Syndrome(raid56, got, got[raid56.data + 1], i,
                          [k \in 0 .. raid56.data - 1 |-> gf_pow2[k]])
      inverse == gf_inverse(gf_pow2[first] ^^ gf_pow2[second])
      value == gf_multiply(delta_q ^^ gf_multiply(gf_pow2[second], delta_p), inverse)
  IN  IF raid56.target = first THEN value ELSE value ^^ delta_p

reconstruct_data(media, raid56, forced, length) ==
  LET stripes == 0 .. raid56.data + raid56.parity - 1
      got == [k \in stripes |->
                IF k = raid56.target \/ k = forced THEN <<>>
                ELSE read_physical_exact(media, raid56.stripes[k], length)]
      missing == {k \in 0 .. raid56.data - 1 : got[k] = <<>>}
      failures == Cardinality({k \in stripes : got[k] = <<>>})
      first == CHOOSE k \in missing : \A other \in missing : k <= other
      second == CHOOSE k \in missing : \A other \in missing : other <= k
  IN  IF failures > raid56.parity THEN <<>>
      ELSE <<[i \in 1 .. length |->
                IF first = second THEN recover_one(raid56, got, first, i)
                ELSE recover_two(raid56, got, first, second, i)]>>

(***************************************************************************)
(* Reading a segment for one of its replica numbers, and a range of        *)
(* addresses with one number for all of its segments.                      *)
(***************************************************************************)
replica_count(segment) ==
  IF segment.raid56 = <<>> THEN Len(segment.locations)
  ELSE IF segment.raid56[1].parity = 1 THEN 2
  ELSE Cardinality(DOMAIN segment.raid56[1].stripes)

RECURSIVE FirstRead(_, _, _, _, _)
FirstRead(media, locations, replica, tried, length) ==
  LET got == read_physical_exact(media, locations[((replica + tried) % Len(locations)) + 1], length)
  IN  IF tried = Len(locations) THEN <<>>
      ELSE IF got # <<>> THEN got
      ELSE FirstRead(media, locations, replica, tried + 1, length)

read_mapped_segment(media, segment, replica) ==
  LET direct == read_physical_exact(media, segment.locations[1], segment.length)
  IN  IF segment.raid56 = <<>>
      THEN FirstRead(media, segment.locations, replica, 0, segment.length)
      ELSE IF replica = 0 /\ direct # <<>> THEN direct
      ELSE reconstruct_data(media, segment.raid56[1],
                            forced_missing(segment.raid56[1], replica), segment.length)

RECURSIVE read_exact_from_replica(_, _, _, _, _, _)
read_exact_from_replica(volume, media, logical, length, replica, purpose) ==
  LET segment == map_segment(volume, logical, length, purpose)
      got == read_mapped_segment(media, segment[1], replica)
      n == segment[1].length
      rest == read_exact_from_replica(volume, media, logical + n, length - n, replica, purpose)
  IN  IF length = 0 THEN <<<<>>>>
      ELSE IF segment = <<>> THEN <<>>
      ELSE IF got = <<>> THEN <<>>
      ELSE IF rest = <<>> THEN <<>>
      ELSE <<got[1] \o rest[1]>>
=============================================================================
