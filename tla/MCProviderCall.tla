---------------------------- MODULE MCProviderCall ----------------------------
EXTENDS ProviderCall
=============================================================================
