---------------------------- MODULE MCSvNetchan ----------------------------
EXTENDS SvNetchan

\* Lengths 1 .. 4 with FRAGMENT_SIZE = 2: a plain datagram, an exact multiple
\* of one fragment, two fragments, an exact multiple of two fragments.
MCPayloads == {<<1>>, <<2, 3>>, <<4, 5, 6>>, <<7, 8, 9, 10>>}
=============================================================================
