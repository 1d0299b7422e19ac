CONSTANTS
  Handler = {h1, h2}
  Domain = {www, api}
  Cert = {star, own}
  MaxTries = 2
  MaxVersion = 3
SPECIFICATION GatewaySpec
PROPERTY Reconfigures
