------------------------------ MODULE MCObjects ------------------------------
EXTENDS Objects

MCLiteral == {Rom("r")}

\* "r" and "t" are in the ROM, "s" is between them.
MCTextOrder == <<"__proto__", "length", "r", "s", "t">>
MCRomTable  == <<"r", "t">>

\* As UTF-8 the character U+FF5E is less than U+1F600, as UTF-16 it is greater.
MCWideOrder == <<"r", "U+FF5E", "U+1F600">>
MCWideTable == <<"r", "U+1F600", "U+FF5E">>
=============================================================================
