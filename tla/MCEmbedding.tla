----------------------------- MODULE MCEmbedding -----------------------------
EXTENDS Embedding
=============================================================================
