---------------------------- MODULE MCKeyboard -----------------------------
EXTENDS Keyboard

MCKeys == {"lshift", "rshift", "letter", "caps", "other"}
=============================================================================
