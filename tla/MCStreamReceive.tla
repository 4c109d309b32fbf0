--------------------------- MODULE MCStreamReceive ---------------------------
(* Messages for the run of StreamReceive, with a buffer of 5 bytes: headers  *)
(* that fit, or fill it; bodies that are missing, fill it, or are too long;  *)
(* frames with every length form, masked or not, with payloads that are      *)
(* missing, fit, need more memory, or exceed MaxData.                        *)
EXTENDS StreamReceiveProps

M(k, h, b, t) == [kind |-> k, head |-> h, body |-> b, keep |-> t]

Requests == {M("request", 2, b, t) : b \in {0, 3}, t \in BOOLEAN}
            \union {M("request", 2, 4, TRUE), M("request", 5, 0, TRUE), M("request", 4, 1, TRUE)}
Frames == {M("frame", h, b, TRUE) : h \in {6, 14}, b \in {0, 2}}
          \union {M("frame", 2, 2, TRUE), M("frame", 8, 0, TRUE), M("frame", 4, 6, TRUE),
                  M("frame", 10, 6, TRUE), M("frame", 14, 7, TRUE), M("frame", 6, 1, FALSE)}
MCMessage == Requests \union Frames
             \union {M("upgrade", 3, 0, TRUE), M("upgrade", 2, 0, FALSE)}
             \union {M("manager", h, 0, TRUE) : h \in 2 .. 4}
==============================================================================
