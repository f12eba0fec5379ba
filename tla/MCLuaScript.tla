--------------------------- MODULE MCLuaScript ---------------------------
EXTENDS LuaScript

\* One character without and two with the shift key, and one without a key.
SmallTexts == {<<"A">>, <<"a", "A">>, <<"A", "?", "A">>, <<"?">>}
=============================================================================
