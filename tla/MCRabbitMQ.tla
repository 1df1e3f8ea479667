------------------------------ MODULE MCRabbitMQ ------------------------------
EXTENDS RabbitMQ
=============================================================================
