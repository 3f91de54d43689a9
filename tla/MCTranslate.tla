---------------------------- MODULE MCTranslate ----------------------------
EXTENDS Translate
=============================================================================
