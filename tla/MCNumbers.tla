------------------------------- MODULE MCNumbers -------------------------------
EXTENDS Numbers

\* "12", "-7", "70" and "81", which are too large, and "x".
MCTexts == {<<1, <<1, 2>>>>, <<-1, <<7>>>>, <<1, <<7, 0>>>>, <<1, <<8, 1>>>>, <<1, <<>>>>}
=============================================================================
