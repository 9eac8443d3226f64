--------------------------- MODULE MCGatewayBoot ---------------------------
EXTENDS GatewayBoot
=============================================================================
