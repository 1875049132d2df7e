----------------------------- MODULE DeframeOut -----------------------------
(***************************************************************************)
(* What the push of a deframer returns: its next state and zero or one     *)
(* canonical chunks, or an error.  An upstream error is one the provider   *)
(* reported in band, a transport error means that the stream is broken.    *)
(***************************************************************************)
EXTENDS Canonical

Errors == {"upstream", "transport"}

Out(kind, de, chunk) == [kind |-> kind, de |-> de, chunk |-> chunk]

Surface(de, chunk) == Out("chunk", de, chunk)
Nothing(de) == Out("nothing", de, EmptyChunk)
Upstream(de) == Out("upstream", de, EmptyChunk)
Transport(de) == Out("transport", de, EmptyChunk)

SurfaceIf(payload, de, chunk) == IF payload THEN Surface(de, chunk) ELSE Nothing(de)

HasPayload(c) ==
  \/ c.delta_text # <<>>
  \/ c.has_calls
  \/ c.finish # "none"
  \/ c.thinking.kind # "none"
  \/ c.usage.given
=============================================================================
