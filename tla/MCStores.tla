------------------------------ MODULE MCStores ------------------------------
\* The root, a path and a path below it; one commit writes up to one cell and
\* one key.
EXTENDS Stores

MCPaths == {<<>>, <<"a">>, <<"a", "b">>}
=============================================================================
