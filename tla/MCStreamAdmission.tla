------------------------- MODULE MCStreamAdmission -------------------------
\* Constants for the finite instance of StreamAdmission: two requests of one source,
\* of which one at a time is admitted, and a third of another.
EXTENDS StreamAdmission

CONSTANTS s1, s2, s3, all, source

MCStreams == {s1, s2, s3}
MCKeys == {all, source}
MCKeysOf == [s \in MCStreams |-> IF s = s3 THEN {all} ELSE {all, source}]
MCLimit == [k \in MCKeys |-> IF k = all THEN 2 ELSE 1]
=============================================================================
