---------------------------- MODULE TensorSrcIio ----------------------------
(***************************************************************************)
(* tensor_src_iio (gsttensor_srciio.c): start sets up a Linux IIO device   *)
(* through its files, create reads its samples, and stop puts back what    *)
(* start has changed.                                                      *)
(*                                                                         *)
(* Channels are numbered by their index.  The files of the device are the  *)
(* fields of iio.dev; a fault is a file that cannot be written.  The       *)
(* device and its way to store samples are external.                       *)
(***************************************************************************)
EXTENDS Integers, Sequences, FiniteSets, Element
IioSeqs == INSTANCE SequencesExt

CONSTANTS
  IioTypes,       \* for each channel its bits, shift, sign and byte order
  IioTraits,      \* [file, avail]: whether the frequency can be set, and the list
  IioEnabled,     \* sets of channels found enabled
  IioTables,      \* channels asked for
  IioFrequencies, \* frequencies asked for
  IioCapacities,  \* samples of a buffer
  IioTriggers,    \* triggers asked for
  IioFaults,      \* [files, channels] whose writing fails
  IioSeeds,       \* readings of the channels
  IioTensorLimit, \* NNS_TENSOR_SIZE_LIMIT
  IioPatience,    \* reads that fit into poll-timeout
  IioMaxStarts    \* bound on starts

Chans == DOMAIN IioTypes

ASSUME IioAssumption ==
  /\ \A c \in Chans : /\ IioTypes[c].storage \in {8, 16}
                      /\ IioTypes[c].used + IioTypes[c].shift <= IioTypes[c].storage
  /\ IioFrequencies \subseteq Nat /\ IioCapacities \subseteq Nat \ {0}
  /\ IioPatience \in Nat /\ IioMaxStarts \in Nat /\ IioTensorLimit \in Nat

VARIABLE iio

\* gst_tensor_src_iio_init, with a device as it may be found.
IioInit ==
  \E traits \in IioTraits, on \in IioEnabled :
    LET dev == [enabled |-> on, freq |-> IF traits.file THEN 9 ELSE 0, length |-> 7,
                trigger |-> "", capture |-> FALSE]
    IN iio = [st |-> "ready", mode |-> "auto", table |-> << >>, capacity |-> 1, freq |-> 0,
              merge |-> TRUE, trigger |-> "", channels |-> {}, pre |-> {}, defFreq |-> 0,
              defLength |-> 0, defTrigger |-> << >>, tensors |-> 0, tries |-> 0,
              traits |-> traits, dev |-> dev, before |-> dev, starts |-> 0,
              stopped |-> FALSE, given |-> << >>, out |-> << >>]

-----------------------------------------------------------------------------
(* set_property: refused from PAUSED on                                    *)

IioSet(changed) ==
  iio.st = "ready" /\ iio.starts < IioMaxStarts /\ iio' = [changed EXCEPT !.stopped = FALSE]

IioSetMode == \E m \in {"auto", "all"} : IioSet([iio EXCEPT !.mode = m])
IioSetTable == \E t \in IioTables : IioSet([iio EXCEPT !.mode = "custom", !.table = <<t>>])
\* A list that cannot be read drops the table and leaves the mode.
IioSetBadTable == iio.table # << >> /\ IioSet([iio EXCEPT !.table = << >>])
IioSetFrequency == \E f \in IioFrequencies : IioSet([iio EXCEPT !.freq = f])
IioSetCapacity == \E n \in IioCapacities : IioSet([iio EXCEPT !.capacity = n])
IioSetMerge == \E b \in BOOLEAN : IioSet([iio EXCEPT !.merge = b])
IioSetTrigger == \E t \in IioTriggers : IioSet([iio EXCEPT !.trigger = t])

-----------------------------------------------------------------------------
(* start: each part goes on from what the one before has done              *)

\* gst_tensor_src_iio_setup_trigger_properties
SetupTrigger(s, faults) ==
  IF s.trigger = "" THEN [ok |-> TRUE, s |-> s]
  ELSE IF "trigger" \in faults.files THEN [ok |-> FALSE, s |-> s]
  ELSE [ok |-> TRUE, s |-> [s EXCEPT !.defTrigger = <<s.dev.trigger>>,
                                     !.dev.trigger = s.trigger]]

\* gst_tensor_src_iio_get_available_frequency; 0 is unknown.
AvailableFrequency(avail, f) ==
  IF avail = << >> THEN 0
  ELSE IF f = 0 THEN avail[1]
  ELSE IF f \in {avail[i] : i \in DOMAIN avail} THEN f ELSE 0

\* gst_tensor_src_iio_setup_sampling_frequency
SetupSamplingFrequency(s, faults) ==
  LET t == IF s.traits.file THEN [s EXCEPT !.defFreq = s.dev.freq] ELSE [s EXCEPT !.freq = 0]
      f == AvailableFrequency(s.traits.avail, t.freq)
      used == [t EXCEPT !.freq = f]
  IN IF f = 0 THEN [ok |-> t.defFreq # 0, s |-> IF t.defFreq # 0
                                                THEN [t EXCEPT !.freq = t.defFreq] ELSE t]
     ELSE IF ~t.traits.file THEN [ok |-> TRUE, s |-> used]
     ELSE IF "frequency" \in faults.files THEN [ok |-> FALSE, s |-> used]
     ELSE [ok |-> TRUE, s |-> [used EXCEPT !.dev.freq = f]]

\* gst_tensor_set_all_channels with 1; where a file fails all are set to 0,
\* which fails for the same files.
SetAllChannels(s, faults) ==
  IF Chans \cap faults.channels = {} THEN [ok |-> TRUE, s |-> [s EXCEPT !.dev.enabled = Chans]]
  ELSE [ok |-> FALSE, s |-> [s EXCEPT !.dev.enabled = @ \cap faults.channels]]

\* The channels of the table are enabled and the others disabled, in the
\* order of their index, up to the first file that fails.
SelectCustom(s, faults) ==
  LET want == IF s.table = << >> THEN {} ELSE s.table[1] \cap Chans
      change == (want \ s.dev.enabled) \cup (s.dev.enabled \ want)
      done == {c \in change : \A f \in change \cap faults.channels : c < f}
  IN [ok |-> change \cap faults.channels = {},
      s |-> [s EXCEPT !.dev.enabled = (@ \ done) \cup (done \cap want)]]

\* gst_tensor_src_iio_create_config with gst_tensor_src_merge_tensor_by_type:
\* all channels have one type, which leaves their number to be merged.
TensorCount(s) == IF s.merge THEN 1 ELSE Cardinality(s.channels)

\* gst_tensor_channel_list_filter_enabled of all; those that are off are freed.
KeepEnabled(s) == [s EXCEPT !.channels = s.dev.enabled]

\* gst_tensor_src_iio_get_all_channel_info notes what was enabled.
ReadChannels(s, set) == [set EXCEPT !.pre = s.dev.enabled]

\* gst_tensor_src_iio_setup_scan_channels
SetupScanChannels(s, faults) ==
  LET on == s.dev.enabled
      all == IF on # Chans /\ (on = {} \/ s.mode = "all") THEN SetAllChannels(s, faults)
             ELSE [ok |-> TRUE, s |-> s]
      custom == IF all.ok /\ s.mode = "custom" THEN SelectCustom(all.s, faults) ELSE all
      kept == KeepEnabled(ReadChannels(s, custom.s))
      ok == custom.ok /\ kept.channels # {} /\ TensorCount(kept) <= IioTensorLimit
  IN [ok |-> ok, s |-> IF ok THEN [kept EXCEPT !.tensors = TensorCount(kept)]
                       ELSE [custom.s EXCEPT !.channels = {}]]

\* gst_tensor_src_iio_setup_device_buffer
SetupDeviceBuffer(s, faults) ==
  LET t == [s EXCEPT !.defLength = s.dev.length]
  IN IF "length" \in faults.files THEN [ok |-> FALSE, s |-> t]
     ELSE [ok |-> "open" \notin faults.files, s |-> [t EXCEPT !.dev.length = s.capacity]]

\* gst_tensor_src_iio_start.  What a part has written before another fails
\* stays in the device.
IioStart ==
  \E faults \in IioFaults :
    LET then(r, Part(_, _)) == IF r.ok THEN Part(r.s, faults) ELSE r
        trigger == SetupTrigger(iio, faults)
        frequency == then(trigger, SetupSamplingFrequency)
        scan == then(frequency, SetupScanChannels)
        buffer == then(scan, SetupDeviceBuffer)
    IN /\ iio.st = "ready" /\ iio.starts < IioMaxStarts
       /\ iio' = [buffer.s EXCEPT
            !.st = IF buffer.ok THEN "paused" ELSE "ready",
            !.channels = IF buffer.ok THEN @ ELSE {},
            !.defTrigger = IF buffer.ok THEN @ ELSE << >>,
            !.before = iio.dev, !.starts = @ + 1, !.stopped = FALSE,
            !.given = << >>, !.out = << >>]

\* gst_tensor_src_restore_iio_device: of the channels that are still listed.
Restore(s) ==
  [s.dev EXCEPT !.enabled = (@ \ s.channels) \cup (s.pre \cap s.channels),
                !.freq = IF s.defFreq > 0 THEN s.defFreq ELSE @,
                !.length = IF s.defLength > 0 THEN s.defLength ELSE @,
                !.trigger = IF s.defTrigger # << >> THEN s.defTrigger[1] ELSE @]

\* gst_tensor_src_iio_stop
IioStop ==
  /\ iio.st = "paused"
  /\ iio' = [iio EXCEPT !.st = "ready", !.dev = Restore(iio), !.channels = {},
                        !.defTrigger = << >>, !.stopped = TRUE, !.given = << >>, !.out = << >>]

\* gst_tensor_src_iio_change_state; enabling the buffer may fail.
IioPlay ==
  \E ok \in BOOLEAN :
    /\ iio.st = "paused"
    /\ iio' = IF ok THEN [iio EXCEPT !.st = "playing", !.dev.capture = TRUE, !.tries = IioPatience]
              ELSE iio
IioPause ==
  iio.st = "playing" /\ iio' = [iio EXCEPT !.st = "paused", !.dev.capture = FALSE]

-----------------------------------------------------------------------------
(* The samples                                                             *)

Bytes(c) == IioTypes[c].storage \div 8
Enabled == IioSeqs!SetToSortSeq(iio.channels, LAMBDA a, b : a < b)

\* gst_tensor_get_size_from_channels: each at a multiple of its own bytes.
Locations(cs) ==
  IioSeqs!FoldLeft(LAMBDA r, c :
             LET remain == r.size % Bytes(c)
                 at == IF remain = 0 THEN r.size ELSE r.size - remain + Bytes(c)
             IN [at |-> Append(r.at, at), size |-> at + Bytes(c)],
           [at |-> << >>, size |-> 0], cs)

\* PROCESS_SCANNED_DATA: shift, mask and sign extension of a word.
FromWord(t, w) ==
  LET v == (w \div 2 ^ t.shift) % 2 ^ t.used
  IN IF t.signed /\ v >= 2 ^ (t.used - 1) THEN v - 2 ^ t.used ELSE v

\* gst_tensor_src_iio_process_scanned_data, for bytes of a scan.
ProcessScannedData(c, scan, at) ==
  LET t == IioTypes[c]
      b(i) == scan[at + i + 1]
  IN FromWord(t, IF Bytes(c) = 1 THEN b(0)
                 ELSE IF t.big THEN b(0) * 256 + b(1) ELSE b(0) + b(1) * 256)

\* What channel c measures in sample k, and the word the device makes of it:
\* bits that are not used may be anything.
Measured(c, k, seed) ==
  LET t == IioTypes[c]
      v == (seed * 37 + c * 11 + k * 5) % 2 ^ t.used
  IN IF t.signed /\ v >= 2 ^ (t.used - 1) THEN v - 2 ^ t.used ELSE v
Word(c, v, junk) ==
  LET t == IioTypes[c]
      field == (v % 2 ^ t.used) * 2 ^ t.shift
      rest == (2 ^ t.shift - 1) + (2 ^ t.storage - 2 ^ (t.shift + t.used))
  IN IF junk THEN field + rest ELSE field
\* A scan of the device: aligned channels, in the order of their index.
DeviceScan(k, seed, junk) ==
  LET put(r, c) ==
        LET gap == (Bytes(c) - (Len(r) % Bytes(c))) % Bytes(c)
            w == Word(c, Measured(c, k, seed), junk)
        IN r \o [i \in 1..gap |-> 255]
             \o (IF Bytes(c) = 1 THEN <<w>>
                 ELSE IF IioTypes[c].big THEN <<w \div 256, w % 256>> ELSE <<w % 256, w \div 256>>)
  IN IioSeqs!FoldLeft(put, << >>, IioSeqs!SetToSortSeq(iio.dev.enabled, LAMBDA a, b : a < b))

\* gst_tensor_src_iio_fill finds no samples and has time left, and so it is
\* if a read falls short while errno is still EAGAIN: what it got is lost.
IioAgain ==
  iio.st = "playing" /\ iio.tries > 0 /\ iio.out = << >> /\ iio' = [iio EXCEPT !.tries = @ - 1]

\* gst_tensor_src_iio_create and gst_tensor_src_iio_fill: the place of each
\* reading in one tensor, or in the tensor of its channel.
IioCreate ==
  \E seed \in IioSeeds, junk \in BOOLEAN :
    LET cs == Enabled
        n == Len(cs)
        lay == Locations(cs)
        raw == IioSeqs!FlattenSeq([k \in 1..iio.capacity |-> DeviceScan(k, seed, junk)])
        value(i, k) == ProcessScannedData(cs[i], raw, (k - 1) * lay.size + lay.at[i])
    IN /\ iio.st = "playing" /\ iio.out = << >>
       /\ iio' = [iio EXCEPT
            !.given = [k \in 1..iio.capacity |-> [c \in iio.dev.enabled |-> Measured(c, k, seed)]],
            !.out = IF iio.tensors = 1
                    THEN <<[p \in 1..n * iio.capacity |-> value(1 + ((p - 1) % n), 1 + (p - 1) \div n)]>>
                    ELSE [i \in 1..n |-> [k \in 1..iio.capacity |-> value(i, k)]]]

IioNext ==
  \/ IioSetMode \/ IioSetTable \/ IioSetBadTable \/ IioSetFrequency \/ IioSetCapacity
  \/ IioSetMerge \/ IioSetTrigger \/ IioStart \/ IioPlay \/ IioPause \/ IioStop
  \/ IioAgain \/ IioCreate

-----------------------------------------------------------------------------
(* Properties                                                              *)

\* While the element runs it reads exactly the channels the device has
\* enabled, and they are those that were asked for: the ones found enabled
\* or else all (auto), all, or those of the table (setup_scan_channels).  A
\* write that failed has ended the start.
IioSelected ==
  iio # Absent =>
    (iio.st # "ready" =>
      /\ iio.channels = iio.dev.enabled
      /\ iio.channels = CASE iio.mode = "all" -> Chans
                          [] iio.mode = "auto" ->
                               IF iio.before.enabled = {} THEN Chans ELSE iio.before.enabled
                          [] iio.mode = "custom" -> iio.table[1] \cap Chans)

\* stop leaves the device as the start has found it: frequency, length and
\* trigger, the buffer off, no channel on that was off (stop and
\* restore_iio_device).  Channels that were on and were not asked for stay
\* off, as they are no longer in the list.
IioRestored ==
  iio # Absent =>
    (iio.stopped =>
      /\ [iio.dev EXCEPT !.enabled = iio.before.enabled] = iio.before
      /\ iio.dev.enabled \subseteq iio.before.enabled
      /\ \A c \in iio.before.enabled \ iio.dev.enabled :
           iio.mode = "custom" /\ c \notin iio.table[1])

\* Every reading of every sample arrives in its place, with its sign and
\* without the bits that are not used, whichever channels are enabled
\* (get_size_from_channels, process_scanned_data and fill).
IioValues ==
  iio # Absent =>
    (iio.out # << >> =>
      \A k \in 1..iio.capacity, i \in 1..Len(Enabled) :
        LET v == iio.given[k][Enabled[i]]
        IN IF iio.tensors = 1 THEN iio.out[1][(k - 1) * Len(Enabled) + i] = v
           ELSE iio.out[i][k] = v)
=============================================================================
