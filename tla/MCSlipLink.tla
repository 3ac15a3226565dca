----------------------------- MODULE MCSlipLink -----------------------------
(* Small alphabet for SlipLink: two magic bytes, one plain byte.           *)
EXTENDS SlipLink

CONSTANTS w, t, x   \* the magic is <<w, t>>, x is any other byte

MCMagic == <<w, t>>
MCByte == {END, ESC, ESC_END, ESC_ESC, w, t, x}
\* Both SLIP escapes in the payload, an escape as the last byte, an escape code
\* as plain data, and a payload that repeats the magic.
MCFrames == {<<w, t, x>>, <<w, t, END, ESC>>, <<w, t, ESC_END, w, t>>}
MCNoise == {w, x, ESC_END}
=============================================================================
