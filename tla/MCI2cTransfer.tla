--------------------------- MODULE MCI2cTransfer ---------------------------
EXTENDS I2cTransfer
=============================================================================
