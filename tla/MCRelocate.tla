----------------------------- MODULE MCRelocate -----------------------------
EXTENDS RelocateInvariant

=============================================================================
