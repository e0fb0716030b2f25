------------------------------ MODULE Channels ------------------------------
(***************************************************************************)
(* channels.py: channel names, the center frequencies (kHz) that they      *)
(* stand for, and ranges of channels.  A name is its prefix and its        *)
(* number.                                                                 *)
(***************************************************************************)
EXTENDS Integers, Sequences

UhfRange == 13..62
CatvRange == 13..63
VhfRange == 1..12

NoPrefix == ""

\* What parse_channel() does not reject with InvalidChannel.
ChannelNames == ({"C"} \X CatvRange) \cup ({NoPrefix} \X (UhfRange \cup VhfRange))

MinFrequency == 90000
MaxFrequency == 770000

UhfFrequency(n) == 473143 + 6000 * (n - 13)

CatvFrequency(n) ==
    IF n <= 21 THEN 111143 + 6000 * (n - 13)
    ELSE IF n = 22 THEN 167143
    ELSE IF n = 23 THEN 225143
    ELSE IF n <= 27 THEN 233143 + 6000 * (n - 24)
    ELSE 255143 + 6000 * (n - 28)

VhfFrequency(n) ==
    IF n <= 3 THEN 93143 + 6000 * (n - 1)
    ELSE IF n <= 7 THEN 173143 + 6000 * (n - 4)
    ELSE 195143 + 6000 * (n - 8)

\* parse_channel() of a name; the number decides between UHF and VHF.
FrequencyOf(name) ==
    IF name[1] = "C" THEN CatvFrequency(name[2])
    ELSE IF name[2] \in UhfRange THEN UhfFrequency(name[2]) ELSE VhfFrequency(name[2])

\* expand_channel_ranges(): only the first end of a range names the band; a
\* number that is no channel of it makes the whole list invalid.
ValidRange(prefix, lo, hi) == lo <= hi /\ {prefix} \X (lo..hi) \subseteq ChannelNames
ExpandRange(prefix, lo, hi) == [i \in 1..(hi - lo + 1) |-> <<prefix, lo + i - 1>>]
=============================================================================
