--------------------------- MODULE MCSocialMedia ---------------------------
EXTENDS SocialMedia

MCPairs == {<<0, 1>>}
=============================================================================
